---------------------------- MODULE Spec2Model ----------------------------
(***************************************************************************)
(* TerraBot: the message-XP leveling engine (LevelManager) and the         *)
(* adventure engine (AdventureManager) over the shared user store.         *)
(*                                                                         *)
(* One store row per user.  A row is a record whose set of fields varies:  *)
(* the leveling engine creates {jid, pushName, xp, level, messages,        *)
(* lastActive, joinedAt, groups}; the adventure engine nests its profile   *)
(* under the field "adventure".  A JS field that is absent is a field that *)
(* is not in the DOMAIN of the TLA+ record.                                *)
(*                                                                         *)
(* Times are milliseconds (Date.now()).  Math.random() is an input, drawn  *)
(* in hundredths from the values next to every threshold the code compares *)
(* it with; floor(Math.random() * n) is drawn from its smallest and        *)
(* largest value.                                                          *)
(***************************************************************************)
EXTENDS Integers, Sequences, FiniteSets, TLC

VARIABLES
    db,          \* LevelManager.db: cleaned user id -> row (no entry: no row)
    xpCooldowns, \* LevelManager.xpCooldowns: cleaned user id -> next eligible time
    now,         \* Date.now()
    faults,      \* whether the store's save() may fail with an I/O error
    last,        \* the last call: operation, argument, result, store before it
    succAt,      \* per cooldown-gated action: time of its last success, or Never
    profiled,    \* the users an adventure profile has been created for
    steps,       \* number of calls and clock advances so far
    calls        \* the invocations in flight: per call its position and its locals

vars == <<db, xpCooldowns, now, faults, last, succAt, profiled, steps, calls>>

-----------------------------------------------------------------------------
(* Bounds of the model *)

MaxSteps == 3

-----------------------------------------------------------------------------
(* Program constants *)

HUNT == 2 * 60 * 1000
TRAIN == 30 * 60 * 1000
DAILY == 24 * 60 * 60 * 1000
NOTHING_COOLDOWN == 30000
messageXpMin == 10
messageXpMax == 25
xpCooldown == 5000
maxLevel == 248
minMessageLength == 3

\* JS values with no integer or string of their own
Null == "null"
NaN == -1
Never == 0 - 1

\* The instant the process starts at (any instant later than every cooldown).
Epoch == 10 * DAILY

-----------------------------------------------------------------------------
(* Static catalogs: getDefaultItems / getDefaultMonsters / getDefaultLocations.
   required_level 0 and restore 0 stand for the absent (falsy) field. *)

Item(t, v, rl, rs) == [type |-> t, value |-> v, required_level |-> rl, restore |-> rs]

ItemOrder ==
    << "sword_1", "sword_2", "sword_3", "sword_4", "axe_1", "staff_1",
       "armor_1", "armor_2", "armor_3", "armor_4",
       "ring_hp", "amulet_speed", "ring_atk", "talisman_luck",
       "potion_health", "potion_strength", "potion_defense", "food_basic",
       "mat_leather", "mat_iron", "mat_wood", "mat_herb" >>

items ==
    [ sword_1 |-> Item("weapon", 50, 1, 0),
      sword_2 |-> Item("weapon", 200, 3, 0),
      sword_3 |-> Item("weapon", 450, 7, 0),
      sword_4 |-> Item("weapon", 1200, 15, 0),
      axe_1 |-> Item("weapon", 300, 5, 0),
      staff_1 |-> Item("weapon", 250, 4, 0),
      armor_1 |-> Item("armor", 100, 1, 0),
      armor_2 |-> Item("armor", 350, 5, 0),
      armor_3 |-> Item("armor", 800, 10, 0),
      armor_4 |-> Item("armor", 1500, 15, 0),
      ring_hp |-> Item("accessory", 150, 3, 0),
      amulet_speed |-> Item("accessory", 200, 5, 0),
      ring_atk |-> Item("accessory", 300, 8, 0),
      talisman_luck |-> Item("accessory", 500, 10, 0),
      potion_health |-> Item("consumable", 25, 1, 50),
      potion_strength |-> Item("consumable", 75, 3, 0),
      potion_defense |-> Item("consumable", 75, 3, 0),
      food_basic |-> Item("consumable", 10, 1, 20),
      mat_leather |-> Item("material", 5, 0, 0),
      mat_iron |-> Item("material", 8, 0, 0),
      mat_wood |-> Item("material", 3, 0, 0),
      mat_herb |-> Item("material", 5, 0, 0) ]

\* dropChance in hundredths
Monster(mn, mx, h, a, d, xp, gmin, gmax, dc, drops) ==
    [minLevel |-> mn, maxLevel |-> mx, health |-> h, attack |-> a, defense |-> d,
     xpReward |-> xp, goldReward |-> [min |-> gmin, max |-> gmax],
     dropChance |-> dc, possibleDrops |-> drops]

monsters ==
    [ slime |-> Monster(1, 3, 20, 5, 2, 10, 5, 15, 30, <<"potion_health", "mat_herb">>),
      rat |-> Monster(1, 4, 15, 7, 1, 8, 3, 10, 40, <<"mat_leather">>),
      wolf |-> Monster(2, 5, 40, 10, 3, 20, 10, 25, 40, <<"potion_health", "mat_leather">>),
      goblin |-> Monster(3, 7, 60, 15, 5, 35, 15, 40, 50,
                         <<"potion_health", "mat_iron", "sword_1">>),
      skeleton |-> Monster(5, 9, 50, 20, 8, 45, 20, 50, 60, <<"armor_1", "mat_iron">>),
      bandit |-> Monster(6, 10, 80, 18, 10, 50, 30, 70, 70,
                         <<"sword_2", "potion_strength", "potion_health">>),
      troll |-> Monster(10, 15, 150, 25, 15, 100, 50, 120, 65,
                        <<"armor_2", "potion_defense", "mat_leather">>),
      golem |-> Monster(12, 18, 200, 20, 30, 120, 70, 150, 70,
                        <<"mat_iron", "armor_3", "amulet_speed">>),
      dragon |-> Monster(15, 20, 300, 40, 25, 200, 100, 250, 90,
                         <<"sword_4", "armor_4", "ring_atk", "talisman_luck">>) ]

Location(sz, ml, common, rare) ==
    [safeZone |-> sz, minLevel |-> ml, commonMonsters |-> common, rareMonsters |-> rare]

locations ==
    [ town |-> Location(TRUE, 1, <<>>, <<>>),
      forest |-> Location(FALSE, 1, <<"slime", "rat", "wolf">>, <<"goblin">>),
      cave |-> Location(FALSE, 5, <<"goblin", "skeleton">>, <<"troll">>),
      mountain |-> Location(FALSE, 10, <<"troll", "golem">>, <<"dragon">>) ]

-----------------------------------------------------------------------------
(* Helpers for JS objects and arrays *)

Has(r, f) == f \in DOMAIN r

\* r with field f set to v (added when absent)
With(r, f, v) == (f :> v) @@ r

Range(s) == {s[i] : i \in 1..Len(s)}

\* the values the model draws for floor(Math.random() * n)
Rnd(n) == IF n <= 1 THEN {0} ELSE {0, n - 1}

\* jid.split("@")[0]
Jids == {"u1@s.whatsapp.net"}
Clean(jid) == CASE jid = "u1@s.whatsapp.net" -> "u1"
                [] jid = "u2@s.whatsapp.net" -> "u2"
                [] jid = "u3@s.whatsapp.net" -> "u3"
                [] OTHER -> jid


-----------------------------------------------------------------------------
(* The store (DatabaseManager): get / set on an in-memory map whose reads
   hand out a copy of the record, and save(), which may fail on I/O. *)

DbHas(d, k) == k \in DOMAIN d
DbSet(d, k, row) == (k :> row) @@ d

\* which save() call of an operation fails: 0 for none
FailPoints == IF faults THEN {0, 1, 2} ELSE {0}

-----------------------------------------------------------------------------
(* LevelManager *)

\* floor(sqrt(q)) for an integer q >= 0
Isqrt(q) == CHOOSE n \in 0..q : n * n <= q /\ (n + 1) * (n + 1) > q

Min(a, b) == IF a <= b THEN a ELSE b
Max(a, b) == IF a >= b THEN a ELSE b

\* Math.min(Math.floor(1 + Math.sqrt(xp / 100)), this.maxLevel)
LevelOf(xp) == Min(1 + Isqrt(xp \div 100), maxLevel)

\* getXpNeeded(level): Math.floor(100 * Math.pow(level, 2))
GetXpNeeded(level) == 100 * level * level

\* the k of 0..100 for which (k / 100) * 100 is below k in double arithmetic
DoubleShort == {29, 57, 58}

\* Math.floor((currentXp / neededXp) * 100) for neededXp > 0: the quotient
\* rounds to the double of k / 100 when it is k / 100, and no other value is
\* within rounding of an integer
FloorPercent(currentXp, neededXp) ==
    LET q == (100 * currentXp) \div neededXp
    IN IF q * neededXp = 100 * currentXp /\ q \in DoubleShort THEN q - 1 ELSE q

\* a getProgress that measures the level from its own threshold to the next
GetProgressOfNextLevel(level, xp) ==
    LET currentLevelXp == GetXpNeeded(level)
        nextLevelXp == GetXpNeeded(level + 1)
        neededXp == nextLevelXp - currentLevelXp
        currentXp == xp - currentLevelXp
    IN [currentXp |-> currentXp, neededXp |-> neededXp,
        percentage |-> Min(100, Max(0, FloorPercent(currentXp, neededXp))),
        isMaxLevel |-> level >= maxLevel]

\* getProgress(level, xp)
GetProgress(level, xp) ==
    LET currentLevelXp == GetXpNeeded(level - 1)
        nextLevelXp == GetXpNeeded(level)
        neededXp == nextLevelXp - currentLevelXp
        currentXp == xp - currentLevelXp
    IN [currentXp |-> currentXp, neededXp |-> neededXp,
        percentage |-> Min(100, Max(0, FloorPercent(currentXp, neededXp))),
        isMaxLevel |-> level >= maxLevel]

\* a getUserData that stamps lastActive on every read
LM_getUserDataTouching(d, userId, pushName, t) ==
    LET cleanUserId == Clean(userId) IN
    IF ~DbHas(d, cleanUserId)
    THEN LET userData == [jid |-> userId,
                          pushName |-> IF pushName # Null THEN pushName ELSE cleanUserId,
                          xp |-> 0, level |-> 1, messages |-> 0,
                          lastActive |-> t, joinedAt |-> t, groups |-> <<>>]
         IN [row |-> userData, db |-> DbSet(d, cleanUserId, userData)]
    ELSE LET old == With(d[cleanUserId], "lastActive", t)
             userData == IF pushName # Null THEN With(old, "pushName", pushName) ELSE old
         IN [row |-> userData, db |-> DbSet(d, cleanUserId, userData)]

\* LevelManager.getUserData(userId, pushName): the record and the store after it
LM_getUserData(d, userId, pushName, t) ==
    LET cleanUserId == Clean(userId) IN
    IF ~DbHas(d, cleanUserId)
    THEN LET userData == [jid |-> userId,
                          pushName |-> IF pushName # Null THEN pushName ELSE cleanUserId,
                          xp |-> 0, level |-> 1, messages |-> 0,
                          lastActive |-> t, joinedAt |-> t, groups |-> <<>>]
         IN [row |-> userData, db |-> DbSet(d, cleanUserId, userData)]
    ELSE LET old == d[cleanUserId] IN
         IF pushName # Null /\ (~Has(old, "pushName") \/ old.pushName # pushName)
         THEN LET userData == With(old, "pushName", pushName)
              IN [row |-> userData, db |-> DbSet(d, cleanUserId, userData)]
         ELSE [row |-> old, db |-> d]

\* userData.messages += 1 (undefined + 1 and NaN + 1 are NaN)
IncMessages(row) ==
    IF Has(row, "messages") /\ row.messages # NaN THEN row.messages + 1 ELSE NaN

\* LevelManager.addXP from the point where the amount is known (lines 186-233).
\* kind "threw": an exception leaves addXP; "levelinfo": the result object.
AddXPBody(d, cds, userId, groupId, amount, pushName, t, saveFails) ==
    LET cleanUserId == Clean(userId)
        g == LM_getUserData(d, userId, pushName, t)
        userData == g.row
        oldLevel == userData.level
        u1 == With(With(With(userData, "xp", userData.xp + amount),
                        "messages", IncMessages(userData)),
                   "lastActive", t)
    IN
    IF groupId # Null /\ ~Has(u1, "groups")
    THEN \* userData.groups.includes on undefined: TypeError
         [db |-> g.db, cds |-> cds, kind |-> "threw",
          out |-> [leveledUp |-> FALSE, oldLevel |-> oldLevel, newLevel |-> oldLevel,
                   xpGained |-> amount]]
    ELSE
    LET u2 == IF groupId # Null /\ groupId \notin Range(u1.groups)
              THEN With(u1, "groups", Append(u1.groups, groupId))
              ELSE u1
        newLevel == LevelOf(u2.xp)
        leveledUp == newLevel > oldLevel
        u3 == IF leveledUp THEN With(u2, "level", newLevel) ELSE u2
    IN [db |-> DbSet(g.db, cleanUserId, u3), cds |-> cds,
        kind |-> IF leveledUp /\ saveFails THEN "threw" ELSE "levelinfo",
        out |-> [leveledUp |-> leveledUp, oldLevel |-> oldLevel, newLevel |-> newLevel,
                 xpGained |-> amount]]

NullOut == [leveledUp |-> FALSE, oldLevel |-> 0, newLevel |-> 0, xpGained |-> 0]

\* an addXP without the message cooldown: every message grant passes
AddXPUnthrottled(d, cds, userId, groupId, amount, bypassCooldown, pushName, t, rx, saveFails) ==
    IF ~bypassCooldown /\ amount = 0
    THEN AddXPBody(d, cds, userId, groupId, rx + messageXpMin, pushName, t, saveFails)
    ELSE AddXPBody(d, cds, userId, groupId, amount, pushName, t, saveFails)

\* LevelManager.addXP(userId, groupId, amount, bypassCooldown, pushName);
\* rx is the value of floor(Math.random() * (messageXpMax - messageXpMin + 1))
AddXPCall(d, cds, userId, groupId, amount, bypassCooldown, pushName, t, rx, saveFails) ==
    LET cleanUserId == Clean(userId) IN
    IF ~bypassCooldown /\ amount = 0
    THEN LET cooldownTime == IF DbHas(cds, cleanUserId) THEN cds[cleanUserId] ELSE 0 IN
         IF t < cooldownTime
         THEN [db |-> d, cds |-> cds, kind |-> "null", out |-> NullOut]
         ELSE AddXPBody(d, DbSet(cds, cleanUserId, t + xpCooldown), userId, groupId,
                        rx + messageXpMin, pushName, t, saveFails)
    ELSE AddXPBody(d, cds, userId, groupId, amount, pushName, t, saveFails)

-----------------------------------------------------------------------------
(* AdventureManager: profile, level-up routine, inventory *)

\* _createDefaultAdventureData(userData)
CreateDefaultAdventureData(userData, t) ==
    [name |-> IF Has(userData, "pushName") THEN userData.pushName ELSE "Adventurer",
     level |-> 1, xp |-> 0, xpNeeded |-> 100,
     stats |-> [health |-> 100, maxHealth |-> 100, attack |-> 10, defense |-> 5,
                speed |-> 8],
     inventory |-> [gold |-> 100, items |-> <<>>],
     equipment |-> [weapon |-> Null, armor |-> Null, accessory |-> Null],
     location |-> "town",
     questsCompleted |-> <<>>,
     monstersDefeated |-> 0,
     cooldowns |-> [hunt |-> 0, train |-> 0, daily |-> 0, quest |-> 0],
     joinedAt |-> t, lastPlayed |-> t]

RECURSIVE Pow(_, _)
Pow(b, e) == IF e = 0 THEN 1 ELSE b * Pow(b, e - 1)

\* Math.floor(100 * Math.pow(1.2, level - 1)), in exact integer arithmetic:
\* 100 * (6/5)^k = 4 * 6^k / 5^(k-2) for k >= 2; from k = 12 on, where 4 * 6^k
\* leaves 32 bits, the values Math.floor gives for k = 12..20
XpNeededFrom12 == <<891, 1069, 1283, 1540, 1848, 2218, 2662, 3194, 3833>>

\* a threshold that shrinks with the level
XpNeededShrinking(level) == Max(10, 100 \div level)

XpNeededFor(level) ==
    LET k == level - 1 IN
    IF k = 0 THEN 100
    ELSE IF k = 1 THEN 120
    ELSE IF k <= 11 THEN (4 * Pow(6, k)) \div Pow(5, k - 2)
    ELSE XpNeededFrom12[k - 11]

\* the while loop of _addXP
RECURSIVE LevelUpLoop(_)
LevelUpLoop(a) ==
    IF a.xp >= a.xpNeeded
    THEN LevelUpLoop(
           [a EXCEPT !.xp = a.xp - a.xpNeeded,
                     !.level = a.level + 1,
                     !.stats = [maxHealth |-> a.stats.maxHealth + 10,
                                health |-> a.stats.maxHealth + 10,
                                attack |-> a.stats.attack + 2,
                                defense |-> a.stats.defense + 1,
                                speed |-> a.stats.speed + 1],
                     !.xpNeeded = XpNeededFor(a.level + 1)])
    ELSE a

\* an _addXP with "if" in place of "while": one level-up at most
AddXPOnce(a, amount) ==
    LET b == [a EXCEPT !.xp = a.xp + amount] IN
    IF b.xp >= b.xpNeeded
    THEN [b EXCEPT !.xp = b.xp - b.xpNeeded,
                   !.level = b.level + 1,
                   !.stats = [maxHealth |-> b.stats.maxHealth + 10,
                              health |-> b.stats.maxHealth + 10,
                              attack |-> b.stats.attack + 2,
                              defense |-> b.stats.defense + 1,
                              speed |-> b.stats.speed + 1],
                   !.xpNeeded = XpNeededFor(b.level + 1)]
    ELSE b

\* _addXP(userData, amount): the profile after it
AddXP(a, amount) == LevelUpLoop([a EXCEPT !.xp = a.xp + amount])

\* the leveledUp flag _addXP returns
LeveledUp(a, amount) == a.xp + amount >= a.xpNeeded

\* index of the inventory entry of itemId, 0 when there is none (find / findIndex)
FindItem(itemsSeq, itemId) ==
    IF \E i \in 1..Len(itemsSeq) : itemsSeq[i].id = itemId
    THEN CHOOSE i \in 1..Len(itemsSeq) :
           /\ itemsSeq[i].id = itemId
           /\ \A j \in 1..(i - 1) : itemsSeq[j].id # itemId
    ELSE 0

\* _addItemToInventory(userData, itemId, quantity)
AddItemToInventory(a, itemId, quantity) ==
    LET its == a.inventory.items
        i == FindItem(its, itemId)
    IN IF i # 0
       THEN [a EXCEPT !.inventory.items[i].quantity = @ + quantity]
       ELSE [a EXCEPT !.inventory.items = Append(its, [id |-> itemId, quantity |-> quantity])]

\* s without its i-th element (splice(i, 1))
RemoveAt(s, i) == [j \in 1..(Len(s) - 1) |-> IF j < i THEN s[j] ELSE s[j + 1]]

\* a _removeItemFromInventory that keeps the entry whose quantity reached 0
RemoveItemKeepingEntry(a, itemId, quantity) ==
    LET its == a.inventory.items
        i == FindItem(its, itemId)
    IN IF i = 0 THEN a
       ELSE [a EXCEPT !.inventory.items[i].quantity = @ - quantity]

\* _removeItemFromInventory(userData, itemId, quantity)
RemoveItemFromInventory(a, itemId, quantity) ==
    LET its == a.inventory.items
        i == FindItem(its, itemId)
    IN IF i = 0 THEN a
       ELSE IF its[i].quantity - quantity <= 0
            THEN [a EXCEPT !.inventory.items = RemoveAt(its, i)]
            ELSE [a EXCEPT !.inventory.items[i].quantity = @ - quantity]

-----------------------------------------------------------------------------
(* AdventureManager: data access *)

\* updateUserData(jid, userData): db.set of the WHOLE row, then save()
UpdateUserData(d, jid, userData) == DbSet(d, Clean(jid), userData)

\* updateAdventureData(jid, adventureData): read the full row, replace its
\* adventure field, write the row back
UpdateAdventureData(d, jid, adventureData, t) ==
    LET g == LM_getUserData(d, Clean(jid), Null, t)
        fullUserData == With(g.row, "adventure", adventureData)
    IN UpdateUserData(g.db, jid, fullUserData)

\* getUserData(jid) of the adventure engine: the profile, the store after it,
\* and how many save() calls it made
AdvGetUserData(d, jid, t) ==
    LET g == LM_getUserData(d, Clean(jid), Null, t) IN
    IF ~Has(g.row, "adventure")
    THEN LET adv == CreateDefaultAdventureData(g.row, t)
             userData == With(g.row, "adventure", adv)
         IN [adv |-> adv, db |-> UpdateUserData(g.db, jid, userData), saves |-> 1,
             created |-> TRUE]
    ELSE [adv |-> g.row.adventure, db |-> g.db, saves |-> 0, created |-> FALSE]

-----------------------------------------------------------------------------
(* AdventureManager: hunt *)

CeilDiv(a, b) == (a + b - 1) \div b

\* each element of s twice, in order (push(monster); push(monster))
Twice(s) == [i \in 1..(2 * Len(s)) |-> s[(i + 1) \div 2]]

\* possibleMonsters of _selectMonsterForLocation(location, userLevel)
PossibleMonsters(location, userLevel) ==
    LET common(id) == /\ Has(monsters, id)
                      /\ userLevel >= monsters[id].minLevel
                      /\ userLevel <= monsters[id].maxLevel + 3
        rare(id) == /\ Has(monsters, id)
                    /\ userLevel >= monsters[id].minLevel
                    /\ userLevel <= monsters[id].maxLevel + 2
    IN Twice(SelectSeq(location.commonMonsters, common))
         \o SelectSeq(location.rareMonsters, rare)

\* a _monsterEncounter in which equal turn counts give the monster the victory
UserWinsOutright(a, monster) ==
    LET userDamage == Max(1, a.stats.attack - (monster.defense \div 2))
        monsterDamage == Max(1, monster.attack - (a.stats.defense \div 2))
        userTurnsToWin == CeilDiv(monster.health, userDamage)
        monsterTurnsToWin == CeilDiv(a.stats.health, monsterDamage)
    IN userTurnsToWin < monsterTurnsToWin

\* the comparison of _monsterEncounter: TRUE when the user wins
UserWins(a, monster) ==
    LET userDamage == Max(1, a.stats.attack - (monster.defense \div 2))
        monsterDamage == Max(1, monster.attack - (a.stats.defense \div 2))
        userTurnsToWin == CeilDiv(monster.health, userDamage)
        monsterTurnsToWin == CeilDiv(a.stats.health, monsterDamage)
    IN userTurnsToWin <= monsterTurnsToWin

\* _handleCombatVictory(adventureData, monster).  gi, di: floor(Math.random()*n)
\* draws; dropRoll: Math.random() in hundredths.  Lines 1095 and 1109 read the
\* variable userData, which no scope of the function declares: a ReferenceError.
HandleCombatVictory(a, monster, gi, dropRoll, di) ==
    LET goldReward == monster.goldReward.min + gi
        xpReward == monster.xpReward
        a1 == [a EXCEPT !.inventory.gold = @ + goldReward]
        a2 == AddXP(a1, xpReward)
        a3 == [a2 EXCEPT !.monstersDefeated = @ + 1]
        rolled == dropRoll < monster.dropChance /\ Len(monster.possibleDrops) > 0
        droppedItem == IF rolled THEN monster.possibleDrops[di + 1] ELSE Null
        threw == \/ (rolled /\ Has(items, droppedItem))
                 \/ LeveledUp(a1, xpReward)
    IN [threw |-> threw, adv |-> a3, gold |-> goldReward, xp |-> xpReward,
        item |-> droppedItem, levelUp |-> LeveledUp(a1, xpReward)]

\* _handleCombatDefeat(userData, monster): the profile it leaves in userData
HandleCombatDefeat(a) ==
    [a EXCEPT !.stats.health = Max(1, (a.stats.maxHealth * 25) \div 100)]

\* possibleItems of _findTreasure, in catalog order
TreasureItems(a, goldBase) ==
    LET ok(id) == /\ (items[id].required_level = 0 \/ items[id].required_level <= a.level)
                  /\ items[id].value <= goldBase * 2
    IN SelectSeq(ItemOrder, ok)

GoldBase(a) == 20 * Min(5, Max(1, (a.level \div 5) + 1))

\* _findTreasure(userData, location)
FindTreasure(a, gi, itemRoll, ti) ==
    LET goldBase == GoldBase(a)
        goldReward == goldBase + gi
        a1 == [a EXCEPT !.inventory.gold = @ + goldReward]
        possibleItems == TreasureItems(a, goldBase)
    IN IF itemRoll < 40 /\ Len(possibleItems) > 0
       THEN [adv |-> AddItemToInventory(a1, possibleItems[ti + 1], 1),
             gold |-> goldReward, item |-> possibleItems[ti + 1]]
       ELSE [adv |-> a1, gold |-> goldReward, item |-> Null]

\* the draws of a hunt that ends before its encounter roll
NoDraw == [roll |-> 0, mi |-> 0, gi |-> 0, dropRoll |-> 0, di |-> 0, itemRoll |-> 0, ti |-> 0]

HuntOut(dr, monsterId, won, gold, xp, item) ==
    [roll |-> dr.roll, monster |-> monsterId, won |-> won, gold |-> gold, xp |-> xp,
     item |-> item, dropRoll |-> dr.dropRoll, di |-> dr.di]

\* _monsterEncounter(userData, location): kind "threw" is the ReferenceError of
\* _handleCombatVictory; hasData tells whether the result has an adventureData
\* field, adv what that field (or, without it, the caller's userData) holds.
\* Fight is the combat against the monster drawn from a non-empty pool.
Fight(a, pool, dr) ==
    LET monsterId == pool[dr.mi + 1]
        monster == monsters[monsterId]
    IN IF UserWins(a, monster)
       THEN LET v == HandleCombatVictory(a, monster, dr.gi, dr.dropRoll, dr.di)
            IN [kind |-> IF v.threw THEN "threw" ELSE "victory",
                hasData |-> ~v.threw, adv |-> v.adv,
                out |-> HuntOut(dr, monsterId, TRUE, v.gold, v.xp, v.item)]
       ELSE [kind |-> "defeat", hasData |-> FALSE, adv |-> HandleCombatDefeat(a),
             out |-> HuntOut(dr, monsterId, FALSE, 0, 0, Null)]

\* a _monsterEncounter whose "no suitable monster" result carries adventureData
MonsterEncounterReturningData(a, location, dr) ==
    LET pool == PossibleMonsters(location, a.level) IN
    IF Len(pool) = 0
    THEN [kind |-> "no_monster", hasData |-> TRUE, adv |-> a,
          out |-> HuntOut(dr, Null, FALSE, 0, 0, Null)]
    ELSE Fight(a, pool, dr)

MonsterEncounter(a, location, dr) ==
    LET pool == PossibleMonsters(location, a.level) IN
    IF Len(pool) = 0
    THEN [kind |-> "no_monster", hasData |-> FALSE, adv |-> a,
          out |-> HuntOut(dr, Null, FALSE, 0, 0, Null)]
    ELSE Fight(a, pool, dr)

\* hunt(jid) at time t after its getUserData call g; dr holds the random draws,
\* failAt the failing save()
HuntBody(g, jid, t, failAt, dr) ==
    LET a == g.adv
        finalFails == failAt = g.saves + 1
        none == HuntOut(NoDraw, Null, FALSE, 0, 0, Null)
    IN
    IF g.saves = 1 /\ failAt = 1 THEN [db |-> g.db, kind |-> "error", out |-> none]
    ELSE IF a.cooldowns.hunt > t THEN [db |-> g.db, kind |-> "cooldown", out |-> none]
    ELSE IF ~Has(locations, a.location)
         THEN [db |-> g.db, kind |-> "invalid_location", out |-> none]
    ELSE IF locations[a.location].safeZone
         THEN [db |-> g.db, kind |-> "safe_zone", out |-> none]
    ELSE IF dr.roll < 70
    THEN LET result == MonsterEncounter(a, locations[a.location], dr) IN
         IF result.kind = "threw"
         THEN [db |-> g.db, kind |-> "error", out |-> result.out]
         ELSE IF result.hasData
         THEN LET stored == [result.adv EXCEPT !.cooldowns.hunt = t + HUNT]
              IN [db |-> UpdateAdventureData(g.db, jid, stored, t),
                  kind |-> IF finalFails THEN "error" ELSE result.kind,
                  out |-> result.out]
         ELSE [db |-> g.db, kind |-> result.kind, out |-> result.out]
    ELSE IF dr.roll < 90
    THEN LET f == FindTreasure(a, dr.gi, dr.itemRoll, dr.ti)
             stored == [f.adv EXCEPT !.cooldowns.hunt = t + HUNT]
         IN [db |-> UpdateUserData(g.db, jid, stored),
             kind |-> IF finalFails THEN "error" ELSE "treasure",
             out |-> HuntOut(dr, Null, FALSE, f.gold, 0, f.item)]
    ELSE LET stored == [a EXCEPT !.cooldowns.hunt = t + NOTHING_COOLDOWN]
         IN [db |-> UpdateUserData(g.db, jid, stored),
             kind |-> IF finalFails THEN "error" ELSE "nothing",
             out |-> HuntOut(dr, Null, FALSE, 0, 0, Null)]

HuntCall(d, jid, t, failAt, dr) ==
    LET g == AdvGetUserData(d, jid, t)
    IN ("created" :> g.created) @@ HuntBody(g, jid, t, failAt, dr)

-----------------------------------------------------------------------------
(* AdventureManager: train, claimDaily, buyItem, equipItem, travel *)

NoOut == [gold |-> 0, xp |-> 0, levelUp |-> FALSE]

\* the stat boost of train: stats[statToBoost] += boostAmount
BoostStat(a, si) ==
    CASE si = 0 -> [a EXCEPT !.stats.attack = @ + 1]
      [] si = 1 -> [a EXCEPT !.stats.defense = @ + 1]
      [] si = 2 -> [a EXCEPT !.stats.speed = @ + 1]
      [] OTHER -> [a EXCEPT !.stats.maxHealth = @ + 5, !.stats.health = @ + 5]

\* a train that stores with updateUserData, as buyItem, equipItem and travel do
TrainBodyStoringProfile(g, jid, t, failAt, xi, boostRoll, si) ==
    LET a == g.adv
        finalFails == failAt = g.saves + 1
        xpGained == 15 + xi
    IN
    IF g.saves = 1 /\ failAt = 1 THEN [db |-> g.db, kind |-> "error", out |-> NoOut]
    ELSE IF a.cooldowns.train > t THEN [db |-> g.db, kind |-> "cooldown", out |-> NoOut]
    ELSE LET a1 == IF boostRoll < 20 THEN BoostStat(a, si) ELSE a
             a2 == AddXP(a1, xpGained)
             a3 == [a2 EXCEPT !.cooldowns.train = t + TRAIN]
         IN [db |-> UpdateUserData(g.db, jid, a3),
             kind |-> IF finalFails THEN "error" ELSE "success",
             out |-> [gold |-> 0, xp |-> xpGained, levelUp |-> LeveledUp(a1, xpGained)]]

\* train(jid); xi = floor(Math.random() * 10), boostRoll = Math.random() in
\* hundredths, si = floor(Math.random() * 4)
TrainBody(g, jid, t, failAt, xi, boostRoll, si) ==
    LET a == g.adv
        finalFails == failAt = g.saves + 1
        xpGained == 15 + xi
    IN
    IF g.saves = 1 /\ failAt = 1 THEN [db |-> g.db, kind |-> "error", out |-> NoOut]
    ELSE IF a.cooldowns.train > t THEN [db |-> g.db, kind |-> "cooldown", out |-> NoOut]
    ELSE LET a1 == IF boostRoll < 20 THEN BoostStat(a, si) ELSE a
             a2 == AddXP(a1, xpGained)
             a3 == [a2 EXCEPT !.cooldowns.train = t + TRAIN]
         IN [db |-> UpdateAdventureData(g.db, jid, a3, t),
             kind |-> IF finalFails THEN "error" ELSE "success",
             out |-> [gold |-> 0, xp |-> xpGained, levelUp |-> LeveledUp(a1, xpGained)]]

TrainCall(d, jid, t, failAt, xi, boostRoll, si) ==
    LET g == AdvGetUserData(d, jid, t)
    IN ("created" :> g.created) @@ TrainBody(g, jid, t, failAt, xi, boostRoll, si)

\* claimDaily(jid)
ClaimDailyBody(g, jid, t, failAt) ==
    LET a == g.adv
        finalFails == failAt = g.saves + 1
        goldReward == 100 + a.level * 10
        xpReward == 20 + a.level * 5
    IN
    IF g.saves = 1 /\ failAt = 1 THEN [db |-> g.db, kind |-> "error", out |-> NoOut]
    ELSE IF a.cooldowns.daily > t THEN [db |-> g.db, kind |-> "cooldown", out |-> NoOut]
    ELSE LET a1 == [a EXCEPT !.inventory.gold = @ + goldReward]
             a2 == AddXP(a1, xpReward)
             a3 == [a2 EXCEPT !.cooldowns.daily = t + DAILY]
         IN [db |-> UpdateAdventureData(g.db, jid, a3, t),
             kind |-> IF finalFails THEN "error" ELSE "success",
             out |-> [gold |-> goldReward, xp |-> xpReward,
                      levelUp |-> LeveledUp(a1, xpReward)]]

ClaimDailyCall(d, jid, t, failAt) ==
    LET g == AdvGetUserData(d, jid, t)
    IN ("created" :> g.created) @@ ClaimDailyBody(g, jid, t, failAt)

\* a buyItem that takes the gold and stores the profile before its level and
\* gold checks
BuyItemChargingFirst(g, jid, itemId, failAt) ==
    LET userData == g.adv
        finalFails == failAt = g.saves + 1
    IN
    IF g.saves = 1 /\ failAt = 1 THEN [db |-> g.db, kind |-> "error", out |-> NoOut]
    ELSE IF ~Has(items, itemId) THEN [db |-> g.db, kind |-> "not_found", out |-> NoOut]
    ELSE LET item == items[itemId]
             u1 == [userData EXCEPT !.inventory.gold = @ - item.value]
             charged == UpdateUserData(g.db, jid, u1)
         IN
         IF item.required_level # 0 /\ userData.level < item.required_level
         THEN [db |-> charged, kind |-> "low_level", out |-> NoOut]
         ELSE IF userData.inventory.gold < item.value
         THEN [db |-> charged, kind |-> "no_gold", out |-> NoOut]
         ELSE LET u2 == AddItemToInventory(u1, itemId, 1)
              IN [db |-> UpdateUserData(g.db, jid, u2),
                  kind |-> IF finalFails THEN "error" ELSE "success", out |-> NoOut]

\* buyItem(jid, itemId)
BuyItemBody(g, jid, itemId, failAt) ==
    LET userData == g.adv
        finalFails == failAt = g.saves + 1
    IN
    IF g.saves = 1 /\ failAt = 1 THEN [db |-> g.db, kind |-> "error", out |-> NoOut]
    ELSE IF ~Has(items, itemId) THEN [db |-> g.db, kind |-> "not_found", out |-> NoOut]
    ELSE LET item == items[itemId] IN
         IF item.required_level # 0 /\ userData.level < item.required_level
         THEN [db |-> g.db, kind |-> "low_level", out |-> NoOut]
         ELSE IF userData.inventory.gold < item.value
         THEN [db |-> g.db, kind |-> "no_gold", out |-> NoOut]
         ELSE LET u1 == [userData EXCEPT !.inventory.gold = @ - item.value]
                  u2 == AddItemToInventory(u1, itemId, 1)
              IN [db |-> UpdateUserData(g.db, jid, u2),
                  kind |-> IF finalFails THEN "error" ELSE "success", out |-> NoOut]

BuyItemCall(d, jid, t, itemId, failAt) ==
    LET g == AdvGetUserData(d, jid, t)
    IN ("created" :> g.created) @@ BuyItemBody(g, jid, itemId, failAt)

\* a _useConsumable that adds the restore amount without the cap at maxHealth
UseConsumableUncapped(d, jid, userData, itemId, item, finalFails) ==
    LET u1 == IF item.restore # 0
              THEN [userData EXCEPT !.stats.health = userData.stats.health + item.restore]
              ELSE userData
        u2 == RemoveItemFromInventory(u1, itemId, 1)
    IN [db |-> UpdateUserData(d, jid, u2),
        kind |-> IF finalFails THEN "error" ELSE "success", out |-> NoOut]

\* _useConsumable(jid, userData, itemId, item)
UseConsumable(d, jid, userData, itemId, item, finalFails) ==
    LET u1 == IF item.restore # 0
              THEN [userData EXCEPT !.stats.health =
                       Min(userData.stats.maxHealth, userData.stats.health + item.restore)]
              ELSE userData
        u2 == RemoveItemFromInventory(u1, itemId, 1)
    IN [db |-> UpdateUserData(d, jid, u2),
        kind |-> IF finalFails THEN "error" ELSE "success", out |-> NoOut]

\* equipItem(jid, itemId)
EquipItemBody(g, jid, itemId, failAt) ==
    LET userData == g.adv
        finalFails == failAt = g.saves + 1
        i == FindItem(userData.inventory.items, itemId)
    IN
    IF g.saves = 1 /\ failAt = 1 THEN [db |-> g.db, kind |-> "error", out |-> NoOut]
    ELSE IF i = 0 \/ userData.inventory.items[i].quantity < 1
         THEN [db |-> g.db, kind |-> "not_held", out |-> NoOut]
    ELSE IF ~Has(items, itemId) THEN [db |-> g.db, kind |-> "unknown_item", out |-> NoOut]
    ELSE LET item == items[itemId] IN
         IF item.type = "consumable"
         THEN UseConsumable(g.db, jid, userData, itemId, item, finalFails)
         ELSE IF item.type \in {"weapon", "armor", "accessory"}
         THEN LET currentItem == userData.equipment[item.type]
                  u1 == [userData EXCEPT !.equipment[item.type] = itemId]
                  u2 == RemoveItemFromInventory(u1, itemId, 1)
                  u3 == IF currentItem # Null THEN AddItemToInventory(u2, currentItem, 1)
                        ELSE u2
              IN [db |-> UpdateUserData(g.db, jid, u3),
                  kind |-> IF finalFails THEN "error" ELSE "success", out |-> NoOut]
         ELSE [db |-> g.db, kind |-> "not_equipable", out |-> NoOut]

EquipItemCall(d, jid, t, itemId, failAt) ==
    LET g == AdvGetUserData(d, jid, t)
    IN ("created" :> g.created) @@ EquipItemBody(g, jid, itemId, failAt)

\* travel(jid, locationId)
TravelBody(g, jid, locationId, failAt) ==
    LET userData == g.adv
        finalFails == failAt = g.saves + 1
    IN
    IF g.saves = 1 /\ failAt = 1 THEN [db |-> g.db, kind |-> "error", out |-> NoOut]
    ELSE IF ~Has(locations, locationId)
         THEN [db |-> g.db, kind |-> "unknown_location", out |-> NoOut]
    ELSE IF locations[locationId].minLevel # 0
            /\ userData.level < locations[locationId].minLevel
         THEN [db |-> g.db, kind |-> "low_level", out |-> NoOut]
    ELSE LET u1 == [userData EXCEPT !.location = locationId]
         IN [db |-> UpdateUserData(g.db, jid, u1),
             kind |-> IF finalFails THEN "error" ELSE "success", out |-> NoOut]

TravelCall(d, jid, t, locationId, failAt) ==
    LET g == AdvGetUserData(d, jid, t)
    IN ("created" :> g.created) @@ TravelBody(g, jid, locationId, failAt)

\* getUserData(jid) called as an operation of its own (getProfile): it has no
\* try/catch, so a failing save() leaves it as an exception
GetProfileCall(d, jid, t, failAt) ==
    LET g == AdvGetUserData(d, jid, t)
    IN [db |-> g.db, created |-> g.created,
        kind |-> IF g.saves = 1 /\ failAt = 1 THEN "threw" ELSE "profile",
        out |-> g.adv]

-----------------------------------------------------------------------------
(* LevelManager.processMessage *)

\* cfg: terra.config (leveling.enabled, privateMode); msg: the message, with
\* privileged = the sender is an owner or an admin of the group
ProcessMessageCall(d, cds, cfg, msg, t, rx, saveFails) ==
    LET skip == [db |-> d, cds |-> cds, kind |-> "null", out |-> NullOut] IN
    IF ~cfg.enabled THEN skip
    ELSE IF msg.length < minMessageLength THEN skip
    ELSE IF msg.command THEN skip
    ELSE IF msg.groupId = Null THEN skip
    ELSE IF cfg.privateMode /\ ~msg.privileged THEN skip
    ELSE AddXPCall(d, cds, msg.sender, msg.groupId, 0, FALSE, msg.pushName, t, rx,
                   saveFails)

-----------------------------------------------------------------------------
(* The inputs the model draws *)

Group == "g1@g.us"
GroupIds == {Null, Group}
PushNames == {Null, "Ann"}
Amounts == {0, 100}
BuyIds == {"potion_health", "sword_1", "sword_2", "mat_herb", "nosuch"}
EquipIds == {"potion_health", "sword_1", "mat_herb", "nosuch"}
TravelIds == {"town", "forest", "cave", "nowhere"}
Delays == {xpCooldown, NOTHING_COOLDOWN, HUNT, TRAIN, DAILY}
EncounterRolls == {69, 70, 89, 90}
DropRolls == {0, 95}
BoostRolls == {19, 20}
ItemRolls == {39, 40}

Configs == {[enabled |-> TRUE, privateMode |-> FALSE],
            [enabled |-> FALSE, privateMode |-> FALSE],
            [enabled |-> TRUE, privateMode |-> TRUE]}

Msg(j, g, n, c, pr, pn) ==
    [sender |-> j, groupId |-> g, length |-> n, command |-> c, privileged |-> pr,
     pushName |-> pn]

\* group messages that pass every filter, and one message per filter it fails
Messages ==
    UNION {{Msg(j, Group, minMessageLength, FALSE, pr, pn) :
                pr \in BOOLEAN, pn \in PushNames}
           \cup {Msg(j, Group, minMessageLength - 1, FALSE, TRUE, Null),
                 Msg(j, Group, minMessageLength, TRUE, TRUE, Null),
                 Msg(j, Null, minMessageLength, FALSE, TRUE, Null)} : j \in Jids}

\* the draws of one hunt by a user whose profile is a
HuntDraws(a) ==
    LET pool == IF Has(locations, a.location)
                THEN PossibleMonsters(locations[a.location], a.level) ELSE <<>>
        m(mi) == monsters[pool[mi + 1]]
        monsterDraws ==
            IF Len(pool) = 0 THEN {[NoDraw EXCEPT !.roll = 69]}
            ELSE UNION {
                   {[NoDraw EXCEPT !.roll = 69, !.mi = mi, !.gi = gi, !.dropRoll = x,
                                   !.di = IF x < m(mi).dropChance THEN di ELSE 0] :
                        gi \in Rnd(m(mi).goldReward.max - m(mi).goldReward.min + 1),
                        x \in DropRolls,
                        di \in 0..(Len(m(mi).possibleDrops) - 1)} :
                   mi \in Rnd(Len(pool))}
        treasureDraws ==
            {[NoDraw EXCEPT !.roll = r, !.gi = gi, !.itemRoll = x,
                            !.ti = IF x < 40 THEN ti ELSE 0] :
                 r \in {r \in EncounterRolls : r >= 70 /\ r < 90},
                 gi \in Rnd(GoldBase(a)), x \in ItemRolls,
                 ti \in Rnd(Len(TreasureItems(a, GoldBase(a))))}
        nothingDraws == {[NoDraw EXCEPT !.roll = r] : r \in {r \in EncounterRolls : r >= 90}}
    IN monsterDraws \cup treasureDraws \cup nothingDraws

-----------------------------------------------------------------------------
(* The stores the process may start with: data/users.json as db.initialize
   loads it.  Either no row, or the row of a user who has been playing. *)

Past == Epoch - DAILY

PersistedProfile(totalXp, locationId) ==
    LET row == [jid |-> "u1", pushName |-> "u1"]
    IN [AddXP(CreateDefaultAdventureData(row, Past), totalXp) EXCEPT !.location = locationId]

PersistedRow(adv) ==
    [jid |-> "u1", pushName |-> "u1", xp |-> 0, level |-> 1, messages |-> 0,
     lastActive |-> Past, joinedAt |-> Past, groups |-> <<>>, adventure |-> adv]

\* level 1 with xp 0 and xp 90 in the forest; level 10 (xp 0) in the forest
PersistedProfiles ==
    {PersistedProfile(0, "forest"), PersistedProfile(90, "forest"),
     PersistedProfile(2076, "forest")}

InitialStores == {<<>>} \cup {("u1" :> PersistedRow(p)) : p \in PersistedProfiles}

-----------------------------------------------------------------------------
(* The state machine *)

Gated == {"hunt", "train", "daily"}

Successful(kind) == kind \in {"success", "victory", "treasure", "nothing"}

\* two invocations may be in flight at once; one that has not started is idle
MaxInFlight == 2
CallIds == 1..MaxInFlight

IdleCall ==
    [op |-> "none", jid |-> Null, pc |-> "idle", adv |-> Null, at |-> 0, dr |-> NoDraw,
     kind |-> "none", overlapped |-> FALSE]

InitWith(stores, f) ==
    /\ db \in stores
    /\ xpCooldowns = <<>>
    /\ now = Epoch
    /\ faults = f
    /\ succAt = [a \in Gated |-> Never]
    /\ profiled = {u \in DOMAIN db : Has(db[u], "adventure")}
    /\ last = [op |-> "none", jid |-> Null, arg |-> Null, kind |-> "none", out |-> NoOut,
               created |-> FALSE, at |-> now, pre |-> db, preCds |-> xpCooldowns,
               preSucc |-> succAt, preProfiled |-> profiled,
               grants |-> <<>>, preGrants |-> <<>>,
               prev |-> [op |-> "none", jid |-> Null, arg |-> Null, kind |-> "none",
                         at |-> now, out |-> NoOut]]
    /\ steps = 0
    /\ calls = [c \in CallIds |-> IdleCall]

Init == InitWith(InitialStores, FALSE)

\* a message grant: addXP with amount 0 and bypassCooldown false
Passive(op, arg) ==
    op \in {"addXP", "processMessage"} /\ arg.amount = 0 /\ ~arg.bypass

\* a call of operation op has returned r; last.grants keeps, per user, the time
\* of the last message grant that returned a result
Done(op, jid, arg, r, cds) ==
    /\ db' = r.db
    /\ xpCooldowns' = cds
    /\ last' = [op |-> op, jid |-> jid, arg |-> arg, kind |-> r.kind, out |-> r.out,
                created |-> r.created, at |-> now, pre |-> db, preCds |-> xpCooldowns,
                preSucc |-> succAt, preProfiled |-> profiled,
                grants |-> IF Passive(op, arg) /\ r.kind = "levelinfo"
                           THEN (Clean(jid) :> now) @@ last.grants ELSE last.grants,
                preGrants |-> last.grants,
                prev |-> [op |-> last.op, jid |-> last.jid, arg |-> last.arg,
                          kind |-> last.kind, at |-> last.at, out |-> last.out]]
    /\ succAt' = IF op \in Gated /\ Successful(r.kind)
                 THEN [succAt EXCEPT ![op] = now] ELSE succAt
    /\ profiled' = IF r.created THEN profiled \cup {Clean(jid)} ELSE profiled
    /\ steps' = steps + 1
    /\ UNCHANGED <<now, faults, calls>>

Tick ==
    /\ steps < MaxSteps
    /\ \E d \in Delays : now' = now + d
    /\ steps' = steps + 1
    /\ UNCHANGED <<db, xpCooldowns, faults, last, succAt, profiled, calls>>

GetProfile ==
    /\ steps < MaxSteps
    /\ \E jid \in Jids, failAt \in FailPoints :
         Done("getProfile", jid, Null, GetProfileCall(db, jid, now, failAt), xpCooldowns)

Hunt ==
    /\ steps < MaxSteps
    /\ \E jid \in Jids, failAt \in FailPoints :
         \E dr \in HuntDraws(AdvGetUserData(db, jid, now).adv) :
           Done("hunt", jid, Null, HuntCall(db, jid, now, failAt, dr), xpCooldowns)

Train ==
    /\ steps < MaxSteps
    /\ \E jid \in Jids, failAt \in FailPoints, xi \in Rnd(10), boostRoll \in BoostRolls :
         \E si \in IF boostRoll < 20 THEN 0..3 ELSE {0} :
           Done("train", jid, Null, TrainCall(db, jid, now, failAt, xi, boostRoll, si),
                xpCooldowns)

ClaimDaily ==
    /\ steps < MaxSteps
    /\ \E jid \in Jids, failAt \in FailPoints :
         Done("daily", jid, Null, ClaimDailyCall(db, jid, now, failAt), xpCooldowns)

BuyItem ==
    /\ steps < MaxSteps
    /\ \E jid \in Jids, failAt \in FailPoints, itemId \in BuyIds :
         Done("buyItem", jid, itemId, BuyItemCall(db, jid, now, itemId, failAt),
              xpCooldowns)

EquipItem ==
    /\ steps < MaxSteps
    /\ \E jid \in Jids, failAt \in FailPoints, itemId \in EquipIds :
         Done("equipItem", jid, itemId, EquipItemCall(db, jid, now, itemId, failAt),
              xpCooldowns)

Travel ==
    /\ steps < MaxSteps
    /\ \E jid \in Jids, failAt \in FailPoints, locationId \in TravelIds :
         Done("travel", jid, locationId, TravelCall(db, jid, now, locationId, failAt),
              xpCooldowns)

AddXPOp ==
    /\ steps < MaxSteps
    /\ \E jid \in Jids, groupId \in GroupIds, amount \in Amounts, bypass \in BOOLEAN,
          pushName \in PushNames, rx \in Rnd(messageXpMax - messageXpMin + 1),
          failAt \in FailPoints :
         LET r == AddXPCall(db, xpCooldowns, jid, groupId, amount, bypass, pushName, now,
                            rx, failAt = 1)
         IN Done("addXP", jid,
                 [groupId |-> groupId, amount |-> amount, bypass |-> bypass],
                 ("created" :> FALSE) @@ r, r.cds)

ProcessMessage ==
    /\ steps < MaxSteps
    /\ \E cfg \in Configs, msg \in Messages, rx \in Rnd(messageXpMax - messageXpMin + 1),
          failAt \in FailPoints :
         LET r == ProcessMessageCall(db, xpCooldowns, cfg, msg, now, rx, failAt = 1)
         IN Done("processMessage", msg.sender,
                 [groupId |-> msg.groupId, amount |-> 0, bypass |-> FALSE],
                 ("created" :> FALSE) @@ r, r.cds)

Next ==
    \/ Tick
    \/ GetProfile
    \/ Hunt
    \/ Train
    \/ ClaimDaily
    \/ BuyItem
    \/ EquipItem
    \/ Travel
    \/ AddXPOp
    \/ ProcessMessage

Spec == Init /\ [][Next]_vars

\* the machine started on an empty store
InitFresh == InitWith({<<>>}, FALSE)
SpecFresh == InitFresh /\ [][Next]_vars

\* the machine started on an empty store whose save() may fail
InitIO == InitWith({<<>>}, TRUE)
SpecIO == InitIO /\ [][Next]_vars

\* Stores of a user who holds and wears items, and of one strong enough for the
\* mountain: a level-1 profile wearing sword_2 and holding sword_1; a level-1
\* profile with 30 gold wearing sword_1 and holding two more, a material and an
\* item that is no longer in the catalog; a level-15 profile in the mountain.
Entry(itemId, quantity) == [id |-> itemId, quantity |-> quantity]

StockedProfiles ==
    {[PersistedProfile(0, "forest") EXCEPT
         !.equipment.weapon = "sword_2",
         !.inventory.items = <<Entry("sword_1", 1), Entry("potion_health", 1)>>],
     [PersistedProfile(0, "forest") EXCEPT
         !.equipment.weapon = "sword_1",
         !.inventory.gold = 30,
         !.inventory.items = <<Entry("sword_1", 2), Entry("mat_herb", 1),
                               Entry("nosuch", 1)>>],
     [PersistedProfile(5913, "mountain") EXCEPT !.inventory.gold = 500]}

StockedStores == {("u1" :> PersistedRow(p)) : p \in StockedProfiles}

InitStocked == InitWith(StockedStores, FALSE)
SpecStocked == InitStocked /\ [][Next]_vars

-----------------------------------------------------------------------------
(* The functions of the two engines, applied to drawn arguments *)

\* a function op has been applied to arg and has returned out
Applied(op, arg, out) ==
    [last EXCEPT !.op = op, !.arg = arg, !.kind = "value", !.out = out]

\* the functions are applied MaxCalls times in a behaviour: what one returns
\* does not depend on what was applied before
MaxCalls == 1

\* a function of its arguments alone leaves the store and the clock as they are
Pure ==
    /\ steps' = steps + 1
    /\ UNCHANGED <<db, xpCooldowns, now, faults, succAt, profiled, calls>>

\* _addXP on the profile of a user of level 1..LevelUpMaxLevel, at the start of
\* the level or 5 or 1 xp short of the next, at full health or at health 1
LevelUpMaxLevel == 6

ProfileOfLevel(level, short, health) ==
    LET d == CreateDefaultAdventureData([pushName |-> "u1"], Past)
        k == level - 1
    IN [d EXCEPT !.level = level,
                 !.xpNeeded = XpNeededFor(level),
                 !.xp = IF short = 0 THEN 0 ELSE XpNeededFor(level) - short,
                 !.stats = [maxHealth |-> 100 + 10 * k,
                            health |-> IF health = 0 THEN 100 + 10 * k ELSE health,
                            attack |-> 10 + 2 * k, defense |-> 5 + k, speed |-> 8 + k]]

LevelUpProfiles ==
    {ProfileOfLevel(level, short, health) :
        level \in 1..LevelUpMaxLevel, short \in {0, 5, 1}, health \in {0, 1}}

LevelUpAmounts == {0, 1, 5, 10, 100, 350, 1000}

ApplyAddXP ==
    /\ steps < MaxCalls
    /\ \E a \in LevelUpProfiles, amount \in LevelUpAmounts :
         /\ last' = Applied("_addXP", [profile |-> a, amount |-> amount], AddXP(a, amount))
         /\ Pure

SpecLevelUp == InitFresh /\ [][ApplyAddXP]_vars

\* getProgress on the levels 1..ProgressMaxLevel with every xp up to the
\* threshold after the level, and on the last two levels at the thresholds
\* around them
ProgressMaxLevel == 3

ProgressInputs ==
    UNION {{[level |-> lv, xp |-> xp] : xp \in 0..GetXpNeeded(lv + 1)} :
           lv \in 1..ProgressMaxLevel}
    \cup {[level |-> lv, xp |-> xp] :
            lv \in {maxLevel - 1, maxLevel},
            xp \in {GetXpNeeded(maxLevel - 2), GetXpNeeded(maxLevel - 1) - 1,
                    GetXpNeeded(maxLevel - 1), GetXpNeeded(maxLevel) - 1,
                    GetXpNeeded(maxLevel), GetXpNeeded(maxLevel + 1) - 1}}

ApplyGetProgress ==
    /\ steps < MaxCalls
    /\ \E i \in ProgressInputs :
         /\ last' = Applied("getProgress", i, GetProgress(i.level, i.xp))
         /\ Pure

SpecProgress == InitFresh /\ [][ApplyGetProgress]_vars

-----------------------------------------------------------------------------
(* The leveling engine alone: two users, two groups, and a clock that also
   advances by less than the message cooldown.  The stored rows are rows
   addXP has written: one 10 xp short of level 248, one 10 xp short of the xp
   of a level 249. *)

XpMaxSteps == 3

XpJids == {"u1@s.whatsapp.net", "u2@s.whatsapp.net"}
XpGroups == {Null, Group, "g2@g.us"}
XpDelays == {1, xpCooldown - 1}

LevelingRow(userId, xp) ==
    [jid |-> userId, pushName |-> userId, xp |-> xp, level |-> LevelOf(xp), messages |-> 1,
     lastActive |-> Past, joinedAt |-> Past, groups |-> <<>>]

XpStores ==
    {<<>>,
     "u1" :> LevelingRow("u1", 100 * (maxLevel - 1) * (maxLevel - 1) - 10),
     "u1" :> LevelingRow("u1", 100 * maxLevel * maxLevel - 10)}

XpMessages ==
    {Msg(j, Group, minMessageLength, FALSE, TRUE, pn) : j \in XpJids, pn \in PushNames}

InitXP == InitWith(XpStores, FALSE)

TickXP ==
    /\ steps < XpMaxSteps
    /\ \E d \in XpDelays : now' = now + d
    /\ steps' = steps + 1
    /\ UNCHANGED <<db, xpCooldowns, faults, last, succAt, profiled, calls>>

GrantXP ==
    /\ steps < XpMaxSteps
    /\ \E jid \in XpJids, groupId \in XpGroups, amount \in Amounts, bypass \in BOOLEAN,
          rx \in Rnd(messageXpMax - messageXpMin + 1) :
         LET r == AddXPCall(db, xpCooldowns, jid, groupId, amount, bypass, Null, now, rx,
                            FALSE)
         IN Done("addXP", jid,
                 [groupId |-> groupId, amount |-> amount, bypass |-> bypass],
                 ("created" :> FALSE) @@ r, r.cds)

MessageXP ==
    /\ steps < XpMaxSteps
    /\ \E cfg \in Configs, msg \in XpMessages, rx \in Rnd(messageXpMax - messageXpMin + 1) :
         LET r == ProcessMessageCall(db, xpCooldowns, cfg, msg, now, rx, FALSE)
         IN Done("processMessage", msg.sender,
                 [groupId |-> msg.groupId, amount |-> 0, bypass |-> FALSE],
                 ("created" :> FALSE) @@ r, r.cds)

NextXP ==
    \/ TickXP
    \/ GrantXP
    \/ MessageXP

SpecXP == InitXP /\ [][NextXP]_vars

-----------------------------------------------------------------------------
(* The ranking: getTopUsers and getUserRank over db.entries(), the array of
   the store's [key, record] pairs in the store's iteration order, and the
   leaderboard command that calls both. *)

\* where Array.prototype.sort puts the element j among the sorted elements
\* before it: behind every element the comparator does not put after it
InsertSorted(order, j, xps) ==
    LET p == Cardinality({i \in 1..Len(order) : xps[order[i]] >= xps[j]})
    IN SubSeq(order, 1, p) \o <<j>> \o SubSeq(order, p + 1, Len(order))

\* .sort((a, b) => b.xp - a.xp) as the order of the indices of the first n
\* elements: a stable sort, by xp descending
RECURSIVE SortedOrder(_, _)
SortedOrder(xps, n) ==
    IF n = 0 THEN <<>> ELSE InsertSorted(SortedOrder(xps, n - 1), n, xps)

\* .slice(0, limit)
Slice0(seq, limit) ==
    LET end == IF limit < 0 THEN Max(Len(seq) + limit, 0) ELSE Min(limit, Len(seq))
    IN SubSeq(seq, 1, end)

\* findIndex(pred) + 1: the first position whose element is in hits, or 0
FirstIn(hits) == IF hits = {} THEN 0 ELSE CHOOSE i \in hits : \A j \in hits : i <= j

\* getTopUsers(limit)
GetTopUsers(entries, limit) ==
    LET users == [i \in 1..Len(entries) |->
                    [f \in DOMAIN entries[i][2] \cup {"userId"} |->
                        IF Has(entries[i][2], f) THEN entries[i][2][f]
                        ELSE entries[i][1]]]
        order == SortedOrder([i \in 1..Len(users) |-> users[i].xp], Len(users))
    IN Slice0([i \in 1..Len(users) |-> users[order[i]]], limit)

\* a getUserRank in which users of equal xp share the rank
GetUserRankSharingTies(entries, userId) ==
    LET cleanUserId == Clean(userId)
        mine == {i \in 1..Len(entries) : entries[i][1] = cleanUserId}
    IN IF mine = {} THEN 0
       ELSE LET me == CHOOSE i \in mine : TRUE
            IN 1 + Cardinality({j \in 1..Len(entries) :
                                  entries[j][2].xp > entries[me][2].xp})

\* getUserRank(userId)
GetUserRank(entries, userId) ==
    LET cleanUserId == Clean(userId)
        order == SortedOrder([i \in 1..Len(entries) |-> entries[i][2].xp], Len(entries))
        sortedUsers == [i \in 1..Len(entries) |-> entries[order[i]]]
    IN FirstIn({i \in 1..Len(sortedUsers) : sortedUsers[i][1] = cleanUserId})

\* the leaderboard command: the limit, the top users, the place of the sender
\* among them and, when the sender is not among them, the sender's rank
Leaderboard(entries, args, sender) ==
    LET limit == IF Len(args) > 0 THEN Min(Max(args[1], 1), 20) ELSE 10
        topUsers == GetTopUsers(entries, limit)
        requesterId == Clean(sender)
        requesterRank == FirstIn({i \in 1..Len(topUsers) : topUsers[i].userId = requesterId})
    IN IF Len(topUsers) = 0 THEN [topUsers |-> topUsers]
       ELSE IF requesterRank = 0
       THEN [topUsers |-> topUsers, requesterRank |-> requesterRank,
             actualRank |-> GetUserRank(entries, requesterId)]
       ELSE [topUsers |-> topUsers, requesterRank |-> requesterRank]

\* stores of up to three users, in every iteration order, with equal and
\* different xp
RankUsers == {"u1", "u2", "u3"}
RankJids == {"u1@s.whatsapp.net", "u2@s.whatsapp.net", "u3@s.whatsapp.net"}
RankXps == {0, 150, 400}
RankLimits == {0, 1, 2, 3, 10, 0 - 1}

RankOrders ==
    {o \in UNION {[1..n -> RankUsers] : n \in 0..Cardinality(RankUsers)} :
        \A i, j \in 1..Len(o) : i # j => o[i] # o[j]}

\* db.entries(): the users of the store in iteration order, each with a record
RankEntries(order, xps) ==
    [i \in 1..Len(order) |-> <<order[i], LevelingRow(order[i], xps[i])>>]

ApplyGetTopUsers ==
    /\ steps < MaxCalls
    /\ \E order \in RankOrders, limit \in RankLimits :
         \E xps \in [1..Len(order) -> RankXps] :
             /\ last' = Applied("getTopUsers",
                                 [entries |-> RankEntries(order, xps), limit |-> limit],
                                 GetTopUsers(RankEntries(order, xps), limit))
             /\ Pure

ApplyGetUserRank ==
    /\ steps < MaxCalls
    /\ \E order \in RankOrders, userId \in RankJids \cup {"u1"} :
         \E xps \in [1..Len(order) -> RankXps] :
             /\ last' = Applied("getUserRank",
                                 [entries |-> RankEntries(order, xps), userId |-> userId],
                                 GetUserRank(RankEntries(order, xps), userId))
             /\ Pure

ApplyLeaderboard ==
    /\ steps < MaxCalls
    /\ \E order \in {o \in RankOrders : Len(o) \in {0, 3}},
        args \in {<<>>, <<0>>, <<2>>}, sender \in RankJids :
         \E xps \in [1..Len(order) -> RankXps] :
             /\ last' = Applied("leaderboard",
                                 [entries |-> RankEntries(order, xps), args |-> args,
                                  sender |-> sender],
                                 Leaderboard(RankEntries(order, xps), args, sender))
             /\ Pure

NextRank == ApplyGetTopUsers \/ ApplyGetUserRank \/ ApplyLeaderboard

SpecRank == InitFresh /\ [][NextRank]_vars

-----------------------------------------------------------------------------
(* The combat alone: _monsterEncounter on profiles of drawn stats, in the
   three hunting grounds, against every monster of the pool *)

CombatLevels == {1, 3, 12}
CombatAttacks == {1, 2, 10, 11, 30}
CombatDefenses == {0, 5, 10, 11, 100}
CombatHealths == {1, 6, 9, 10, 25, 100}
CombatLocations == {"forest", "cave", "mountain"}

CombatProfile(level, attack, defense, health) ==
    LET d == CreateDefaultAdventureData([pushName |-> "u1"], Past)
    IN [d EXCEPT !.level = level, !.xpNeeded = XpNeededFor(level),
                 !.stats.attack = attack, !.stats.defense = defense,
                 !.stats.health = health, !.stats.maxHealth = Max(100, health)]

CombatProfiles ==
    {CombatProfile(level, attack, defense, health) :
        level \in CombatLevels, attack \in CombatAttacks,
        defense \in CombatDefenses, health \in CombatHealths}

\* the draws of an encounter with the monster mi of the pool: least gold, no drop
CombatDraw(mi) == [NoDraw EXCEPT !.roll = 0, !.mi = mi, !.dropRoll = 99]

\* what a _monsterEncounter result tells of the combat
CombatOut(r) == [kind |-> r.kind, monster |-> r.out.monster, won |-> r.out.won]

ApplyMonsterEncounter ==
    /\ steps < MaxCalls
    /\ \E a \in CombatProfiles, l \in CombatLocations :
         \E mi \in 0..Max(0, Len(PossibleMonsters(locations[l], a.level)) - 1) :
             /\ last' = Applied("_monsterEncounter",
                                [profile |-> a, location |-> l, mi |-> mi],
                                CombatOut(MonsterEncounter(a, locations[l], CombatDraw(mi))))
             /\ Pure

SpecCombat == InitFresh /\ [][ApplyMonsterEncounter]_vars

-----------------------------------------------------------------------------
(* The reads: the leveling getUserData and the adventure getUserData, between
   purchases and xp grants that change the row *)

\* getUserData(userId, pushName) of the leveling engine, called on its own
GetUserDataCall(d, userId, pushName, t) ==
    LET g == LM_getUserData(d, userId, pushName, t)
    IN [db |-> g.db, created |-> FALSE, kind |-> "row", out |-> g.row]

GetUserData ==
    /\ steps < MaxSteps
    /\ \E userId \in Jids \cup {"u1"}, pushName \in PushNames :
         Done("getUserData", userId, pushName,
              GetUserDataCall(db, userId, pushName, now), xpCooldowns)

NextRead ==
    \/ Tick
    \/ GetUserData
    \/ GetProfile
    \/ BuyItem
    \/ AddXPOp

SpecRead == Init /\ [][NextRead]_vars

-----------------------------------------------------------------------------
(* Invocations that overlap.  An async method runs until its next await and
   is resumed in a later turn of the event loop; between the two turns any
   other invocation may run.  hunt, train and claimDaily await getUserData
   before their cooldown check (892, 1307, 2000); hunt awaits
   _monsterEncounter and _findTreasure between its check and its cooldown
   update (929, 939); all three await the store's save after db.set. *)

OverlapMaxSteps == 1

InFlight(c) == calls[c].pc \notin {"idle", "returned"}

\* what a resumed invocation holds: the profile it read, and the store of now
Held(c) == [adv |-> calls[c].adv, db |-> db, saves |-> 0, created |-> FALSE]

GateKinds == {"cooldown", "invalid_location", "safe_zone"}

\* the invocation runs from its entry to `await this.getUserData(jid)`:
\* getUserData has read (and, for a new user, created and stored) the profile
StartCall ==
    \E c \in CallIds, op \in Gated, jid \in Jids :
      /\ calls[c].pc = "idle"
      /\ \A o \in CallIds : o < c => calls[o].pc # "idle" /\ calls[o].op = op
      /\ LET g == AdvGetUserData(db, jid, now)
             others == {o \in CallIds : InFlight(o)}
         IN /\ db' = g.db
            /\ profiled' = IF g.created THEN profiled \cup {Clean(jid)} ELSE profiled
            /\ calls' = [o \in CallIds |->
                           IF o = c
                           THEN [IdleCall EXCEPT !.op = op, !.jid = jid, !.pc = "reading",
                                                 !.adv = g.adv,
                                                 !.overlapped = others # {}]
                           ELSE IF o \in others
                                THEN [calls[o] EXCEPT !.overlapped = TRUE]
                                ELSE calls[o]]
      /\ UNCHANGED <<xpCooldowns, now, faults, last, succAt, steps>>

\* the outcome of the invocation's body on the profile it holds
BodyOf(c, t, dr, xi, boostRoll, si) ==
    CASE calls[c].op = "hunt" -> HuntBody(Held(c), calls[c].jid, t, 0, dr)
      [] calls[c].op = "train" ->
           TrainBody(Held(c), calls[c].jid, t, 0, xi, boostRoll, si)
      [] OTHER -> ClaimDailyBody(Held(c), calls[c].jid, t, 0)

\* the invocation resumes with its profile: `const now = Date.now()`, the
\* cooldown check, and the run up to its next await.  A hunt that rolls an
\* encounter or a treasure stops at 929 or 939 with its check passed; every
\* other body runs through its db.set to the await of save()
CheckGate ==
    \E c \in CallIds :
      /\ calls[c].pc = "reading"
      /\ \E dr \in (IF calls[c].op = "hunt" THEN HuntDraws(calls[c].adv) ELSE {NoDraw}),
            xi \in (IF calls[c].op = "train" THEN Rnd(10) ELSE {0}),
            boostRoll \in (IF calls[c].op = "train" THEN BoostRolls ELSE {20}),
            si \in 0..3 :
           LET r == BodyOf(c, now, dr, xi, boostRoll, si) IN
           /\ (calls[c].op # "train" \/ boostRoll >= 20) => si = 0
           /\ IF r.kind \in GateKinds
              THEN /\ calls' = [calls EXCEPT ![c].pc = "returned", ![c].kind = r.kind,
                                             ![c].at = now]
                   /\ UNCHANGED db
              ELSE IF calls[c].op = "hunt" /\ dr.roll < 90
              THEN /\ calls' = [calls EXCEPT ![c].pc = "encounter", ![c].at = now,
                                             ![c].dr = dr]
                   /\ UNCHANGED db
              ELSE /\ calls' = [calls EXCEPT ![c].pc = "saving", ![c].kind = r.kind,
                                             ![c].at = now]
                   /\ db' = r.db
      /\ UNCHANGED <<xpCooldowns, now, faults, last, succAt, profiled, steps>>

\* the hunt resumes after _monsterEncounter or _findTreasure: the cooldown
\* update (932, 941) and, when there is something to store, the db.set
AfterEncounter ==
    \E c \in CallIds :
      /\ calls[c].pc = "encounter"
      /\ LET r == BodyOf(c, calls[c].at, calls[c].dr, 0, 20, 0) IN
         /\ db' = r.db
         /\ calls' = [calls EXCEPT ![c].kind = r.kind,
                                   ![c].pc = IF r.kind \in {"victory", "treasure"}
                                             THEN "saving" ELSE "returned"]
      /\ UNCHANGED <<xpCooldowns, now, faults, last, succAt, profiled, steps>>

\* save() has completed and the invocation returns its result
Return ==
    \E c \in CallIds :
      /\ calls[c].pc = "saving"
      /\ calls' = [calls EXCEPT ![c].pc = "returned"]
      /\ UNCHANGED <<db, xpCooldowns, now, faults, last, succAt, profiled, steps>>

\* the clock advances between two turns
Elapse ==
    /\ steps < OverlapMaxSteps
    /\ \E d \in {1, NOTHING_COOLDOWN} : now' = now + d
    /\ steps' = steps + 1
    /\ UNCHANGED <<db, xpCooldowns, faults, last, succAt, profiled, calls>>

NextOverlap == StartCall \/ CheckGate \/ AfterEncounter \/ Return \/ Elapse

SpecOverlap == Init /\ [][NextOverlap]_vars

-----------------------------------------------------------------------------
(* What the claims speak of *)

LastUser == Clean(last.jid)

AdvOps == {"getProfile", "hunt", "train", "daily", "buyItem", "equipItem", "travel"}
XpOps == {"addXP", "processMessage"}
UserOps == (AdvOps \ {"getProfile"}) \cup XpOps

LevelingFields == {"xp", "level", "messages", "groups", "joinedAt", "pushName"}

\* the record r cut down to the fields of F it has
FieldsOf(r, F) == [f \in F \cap DOMAIN r |-> r[f]]

\* the profile a getProfile at time t returns over the store d
ProfileAt(d, jid, t) == AdvGetUserData(d, jid, t).adv

HadRow == DbHas(last.pre, LastUser)
HasStoredProfile(d) == DbHas(d, LastUser) /\ Has(d[LastUser], "adventure")

Cooldown(op) == CASE op = "hunt" -> HUNT [] op = "train" -> TRAIN [] OTHER -> DAILY

Qty(a, itemId) ==
    LET i == FindItem(a.inventory.items, itemId)
    IN IF i = 0 THEN 0 ELSE a.inventory.items[i].quantity

PrevTravelled == last.prev.op = "travel" /\ last.prev.kind = "success"
                 /\ last.prev.jid = last.jid

-----------------------------------------------------------------------------
\* C1: every write of a user's row by one engine keeps the other engine's
\* fields: after an adventure operation the leveling fields of the row (xp,
\* level, messages, groups, joinedAt, pushName) are what they were before the
\* call, and after an addXP the adventure sub-object is what it was.
C1_AdventureKept ==
    (last.op \in XpOps /\ HasStoredProfile(last.pre))
        => /\ HasStoredProfile(db)
           /\ db[LastUser].adventure = last.pre[LastUser].adventure

C1_Claim ==
    /\ (last.op \in AdvOps /\ HadRow)
          => /\ DbHas(db, LastUser)
             /\ FieldsOf(db[LastUser], LevelingFields)
                  = FieldsOf(last.pre[LastUser], LevelingFields)
    /\ C1_AdventureKept

\* C2: a profile is created once: a getProfile creates a default profile only
\* for a user no profile was created for before.
C2_Claim ==
    (last.op = "getProfile" /\ last.created) => LastUser \notin last.preProfiled

\* C3: between two successful train calls, and between two successful
\* claimDaily calls, of a user at least the cooldown of the action elapses.
C3_Claim ==
    (last.op \in {"train", "daily"} /\ Successful(last.kind)
       /\ last.preSucc[last.op] # Never)
        => last.at - last.preSucc[last.op] >= Cooldown(last.op)

\* C4: travel(L) succeeds exactly when L is a known location and the user's
\* level is at least L.minLevel; the getProfile that follows a successful
\* travel returns location L, and the hunt that follows it is rejected as a
\* safe zone only if L is a safe zone.
C4_SucceedsIff ==
    last.op = "travel"
        => (last.kind = "success"
              <=> /\ Has(locations, last.arg)
                  /\ ProfileAt(last.pre, last.jid, last.at).level
                       >= locations[last.arg].minLevel)

C4_Claim ==
    /\ C4_SucceedsIff
    /\ (last.op = "getProfile" /\ last.kind = "profile" /\ PrevTravelled)
          => last.out.location = last.prev.arg
    /\ (last.op = "hunt" /\ last.kind = "safe_zone" /\ PrevTravelled)
          => locations[last.prev.arg].safeZone

\* C5: a hunt called at the instant of a hunt of the same user that returned
\* success is rejected for cooldown, and a hunt called when the stored
\* cooldowns.hunt has passed is not rejected for cooldown.
C5_Passed ==
    (last.op = "hunt" /\ HasStoredProfile(last.pre)
       /\ last.pre[LastUser].adventure.cooldowns.hunt <= last.at)
        => last.kind # "cooldown"

C5_Claim ==
    /\ (last.op = "hunt" /\ last.prev.op = "hunt" /\ last.prev.jid = last.jid
          /\ Successful(last.prev.kind) /\ last.at = last.prev.at)
          => last.kind = "cooldown"
    /\ C5_Passed

\* C6: whenever the user wins the combat of a hunt, the hunt returns the
\* victory result and the stored profile has the gold of before plus an amount
\* in [goldReward.min, goldReward.max], one more monster defeated, the xp,
\* level and stats the level-up routine gives for the monster's xpReward, and
\* cooldowns.hunt = now + 2 minutes.
C6_Claim ==
    (last.op = "hunt" /\ last.out.won)
        => /\ last.kind = "victory"
           /\ HasStoredProfile(db)
           /\ LET before == ProfileAt(last.pre, last.jid, last.at)
                  after == db[LastUser].adventure
                  monster == monsters[last.out.monster]
                  grown == AddXP(before, monster.xpReward)
              IN /\ after.inventory.gold - before.inventory.gold
                      \in monster.goldReward.min..monster.goldReward.max
                 /\ after.monstersDefeated = before.monstersDefeated + 1
                 /\ FieldsOf(after, {"xp", "level", "xpNeeded", "stats"})
                      = FieldsOf(grown, {"xp", "level", "xpNeeded", "stats"})
                 /\ after.cooldowns.hunt = last.at + HUNT

\* C7: when the user wins and the drop roll succeeds on an item of the
\* catalog, one unit of that item of monster.possibleDrops is added to the
\* inventory and the successful result reports it in rewards.item.
C7_Claim ==
    (/\ last.op = "hunt" /\ last.out.won
     /\ last.out.dropRoll < monsters[last.out.monster].dropChance
     /\ Len(monsters[last.out.monster].possibleDrops) > 0
     /\ Has(items, monsters[last.out.monster].possibleDrops[last.out.di + 1]))
        => LET drawn == monsters[last.out.monster].possibleDrops[last.out.di + 1]
               before == ProfileAt(last.pre, last.jid, last.at)
           IN /\ last.kind = "victory"
              /\ last.out.item = drawn
              /\ HasStoredProfile(db)
              /\ Qty(db[LastUser].adventure, drawn) = Qty(before, drawn) + 1

\* C8: when an adventure operation ends with the generic internal-error
\* result of its catch block, the profile later operations see (gold,
\* inventory, xp, level, stats, monstersDefeated, cooldowns) is the profile of
\* before the call.
SeenFields == {"inventory", "xp", "level", "stats", "monstersDefeated", "cooldowns"}

C8_Claim ==
    (last.op \in AdvOps /\ last.kind = "error")
        => FieldsOf(ProfileAt(db, last.jid, last.at), SeenFields)
             = FieldsOf(ProfileAt(last.pre, last.jid, last.at), SeenFields)

\* C9: every user-facing operation (hunt, train, claimDaily, buyItem,
\* equipItem, travel, addXP, processMessage) returns a result; none ends by
\* an exception reaching its caller.
C9_Claim == last.op \in UserOps => last.kind # "threw"

\* C10: a hunt that fails before combat (cooldown still running, safe zone, no
\* monster of the pool matching the level) returns success:false and leaves
\* the user's profile, cooldowns.hunt included, as it was.
C10_FailedHuntIsNoOp ==
    (last.op = "hunt" /\ last.kind \in {"cooldown", "safe_zone", "no_monster"})
        => /\ ~Successful(last.kind)
           /\ ProfileAt(db, last.jid, last.at) = ProfileAt(last.pre, last.jid, last.at)

\* a hunt that found no monster for a profile whose hunt cooldown was over
C10_Witness ==
    /\ last.op = "hunt" /\ last.kind = "no_monster"
    /\ HasStoredProfile(db)
    /\ db[LastUser].adventure.cooldowns.hunt <= last.at

\* a hunt rejected for its cooldown
C10_CooldownReached == last.op = "hunt" /\ last.kind = "cooldown"

-----------------------------------------------------------------------------
EquipSlots == {"weapon", "armor", "accessory"}

\* the ids a profile holds or wears
IdsOf(a) ==
    {a.inventory.items[i].id : i \in 1..Len(a.inventory.items)}
      \cup ({a.equipment[s] : s \in EquipSlots} \ {Null})

\* the units of itemId a profile has, in the inventory and in the slots
Units(a, itemId) ==
    Qty(a, itemId) + Cardinality({s \in EquipSlots : a.equipment[s] = itemId})

\* the profile before the last call, and the one an operation after it reads
Before == ProfileAt(last.pre, last.jid, last.at)
After == ProfileAt(db, last.jid, last.at)

\* the object the last call handed to the store as the user's row
Handed == IF Has(db[LastUser], "adventure") THEN db[LastUser].adventure ELSE db[LastUser]

Equipped ==
    /\ last.op = "equipItem" /\ last.kind = "success"
    /\ Has(items, last.arg) /\ items[last.arg].type \in EquipSlots

\* the equip swap between the profiles b (before) and a (after)
Swapped(b, a) ==
    LET slot == items[last.arg].type
        old == b.equipment[slot]
    IN /\ a.equipment[slot] = last.arg
       /\ Qty(a, last.arg) = Qty(b, last.arg) - 1 + (IF old = last.arg THEN 1 ELSE 0)
       /\ (old # Null /\ old # last.arg) => Qty(a, old) = Qty(b, old) + 1
       /\ \A id \in IdsOf(b) \cup IdsOf(a) : Units(a, id) = Units(b, id)

\* C11: a successful equipItem of a held weapon, armor or accessory B leaves B
\* in the slot of its type, one unit of B less in the inventory, one unit more
\* of the item A the slot held, and for every item id as many units across the
\* inventory and the slots as before (also when A = B).
C11_Claim == Equipped => Swapped(Before, After)

\* the swap as computed on the object equipItem hands to the store
C11_HandedObject == Equipped => Swapped(Before, Handed)

\* the purchase of last.arg between the profiles b (before) and a (after)
Bought(b, a) ==
    /\ a.inventory.gold = b.inventory.gold - items[last.arg].value
    /\ Qty(a, last.arg) = Qty(b, last.arg) + 1
    /\ \A id \in (IdsOf(b) \cup IdsOf(a)) \ {last.arg} : Qty(a, id) = Qty(b, id)
    /\ FieldsOf(a, {"level", "xp", "stats", "equipment", "location", "cooldowns"})
         = FieldsOf(b, {"level", "xp", "stats", "equipment", "location", "cooldowns"})

\* C12: a successful buyItem(userId, itemId) takes item.value from the gold of
\* the profile, adds one unit of itemId to its inventory and changes no other
\* field (level, xp, stats, equipment, location, cooldowns).
C12_Claim == (last.op = "buyItem" /\ last.kind = "success") => Bought(Before, After)

\* the purchase as computed on the object buyItem hands to the store
C12_HandedObject == (last.op = "buyItem" /\ last.kind = "success") => Bought(Before, Handed)

\* the results by which buyItem, equipItem and travel turn a user error down
UserErrors ==
    [buyItem |-> {"not_found", "low_level", "no_gold"},
     equipItem |-> {"not_held", "unknown_item", "not_equipable"},
     travel |-> {"unknown_location", "low_level"}]

Rejected == last.op \in DOMAIN UserErrors /\ last.kind \in UserErrors[last.op]

\* C13: whenever buyItem, equipItem or travel turns a user error down (unknown
\* item, level too low, not enough gold, item not held, item not equipable,
\* unknown location) it returns success:false and the gold, inventory,
\* equipment, stats and location of the profile are as before the call.
C13_RejectionIsNoOp ==
    Rejected
        => /\ ~Successful(last.kind)
           /\ FieldsOf(After, {"inventory", "equipment", "stats", "location"})
                = FieldsOf(Before, {"inventory", "equipment", "stats", "location"})

\* buyItem turned down for the level by a user who holds gold and items
C13_Witness ==
    /\ last.op = "buyItem" /\ last.kind = "low_level"
    /\ Before.inventory.gold >= items[last.arg].value
    /\ Len(Before.inventory.items) > 0

\* C14: after a hunt that ends in combat defeat the stored profile has health
\* max(1, floor(maxHealth * 0.25)), the gold, xp, level, inventory and
\* monstersDefeated of before, and cooldowns.hunt = now + 2 minutes.
C14_Claim ==
    (last.op = "hunt" /\ last.kind = "defeat")
        => /\ After.stats.health = Max(1, (Before.stats.maxHealth * 25) \div 100)
           /\ FieldsOf(After, {"inventory", "xp", "level", "monstersDefeated"})
                = FieldsOf(Before, {"inventory", "xp", "level", "monstersDefeated"})
           /\ After.cooldowns.hunt = last.at + HUNT

\* floor(100 * 1.2^k), as the quotient of 100 * 6^k by 5^k
Floor100x12(k) == (100 * Pow(6, k)) \div Pow(5, k)

\* the sum of the thresholds of the levels from..to
RECURSIVE ThresholdsCrossed(_, _)
ThresholdsCrossed(from, to) ==
    IF from > to THEN 0 ELSE Floor100x12(from - 1) + ThresholdsCrossed(from + 1, to)

\* C15: the adventure level-up routine applied with an amount >= 0 to a profile
\* with 0 <= xp < xpNeeded ends with 0 <= xp < xpNeeded and xpNeeded =
\* floor(100 * 1.2^(level-1)); if it raised the level by k then maxHealth grew
\* by 10k, attack by 2k, defense and speed by k, health is maxHealth when
\* k >= 1, and old xp + amount is the new xp plus the k thresholds crossed.
C15_LevelUpRoutine ==
    last.op = "_addXP" =>
      LET b == last.arg.profile
          a == last.out
          k == a.level - b.level
      IN (0 <= b.xp /\ b.xp < b.xpNeeded /\ last.arg.amount >= 0)
           => /\ 0 <= a.xp /\ a.xp < a.xpNeeded
              /\ a.xpNeeded = Floor100x12(a.level - 1)
              /\ k >= 0
              /\ a.stats.maxHealth = b.stats.maxHealth + 10 * k
              /\ a.stats.attack = b.stats.attack + 2 * k
              /\ a.stats.defense = b.stats.defense + k
              /\ a.stats.speed = b.stats.speed + k
              /\ k >= 1 => a.stats.health = a.stats.maxHealth
              /\ k = 0 => a.stats.health = b.stats.health
              /\ b.xp + last.arg.amount
                   = a.xp + ThresholdsCrossed(b.level, a.level - 1)

\* level 1, xp 95, xpNeeded 100, grant 10: level 2, xp 5, xpNeeded 120
C15_Witness ==
    /\ last.op = "_addXP"
    /\ last.arg.profile.level = 1 /\ last.arg.profile.xp = 95 /\ last.arg.amount = 10
    /\ last.out.level = 2 /\ last.out.xp = 5 /\ last.out.xpNeeded = 120

\* a grant that crosses more than one threshold
C15_SeveralLevels == last.op = "_addXP" /\ last.out.level >= last.arg.profile.level + 3

-----------------------------------------------------------------------------
\* 1 + floor(sqrt(xp / 100)): 1 + the largest n with 100 * n^2 <= xp
SqrtLevel(xp) == 1 + CHOOSE n \in 0..300 : 100 * n * n <= xp /\ xp < 100 * (n + 1) * (n + 1)

ReturnedXP == last.op \in XpOps /\ last.kind = "levelinfo"

C16_CapReached ==
    /\ ReturnedXP /\ db[LastUser].level = 248 /\ db[LastUser].xp >= 100 * 248 * 248

\* C17: an addXP called with amount 0 that the cooldown does not reject adds a
\* random amount in [10,25] to the xp of the user, with bypassCooldown false
\* and with bypassCooldown true: the xpGained it returns is never 0.
C17_Claim ==
    (last.op = "addXP" /\ last.kind = "levelinfo" /\ last.arg.amount = 0)
        => /\ last.out.xpGained \in 10..25
           /\ db[LastUser].xp
                = (IF HadRow THEN last.pre[LastUser].xp ELSE 0) + last.out.xpGained

\* the half of C17 with bypassCooldown false
C17_NotBypassed ==
    (last.op = "addXP" /\ last.kind = "levelinfo" /\ last.arg.amount = 0
       /\ ~last.arg.bypass)
        => last.out.xpGained \in 10..25

\* C18: when a message grant (addXP with amount 0 and bypassCooldown false) has
\* given a user xp at time t, every message grant for that user before
\* t + 5000 ms returns null and changes neither the store nor the cooldowns,
\* whatever the group and whatever other users were granted.
C18_Throttle ==
    (/\ Passive(last.op, last.arg)
     /\ LastUser \in DOMAIN last.preGrants
     /\ last.at < last.preGrants[LastUser] + 5000)
        => /\ last.kind = "null"
           /\ db = last.pre
           /\ xpCooldowns = last.preCds

\* a message from a group the user has no xp from yet, 4999 ms after the grant
C18_Witness ==
    /\ Passive(last.op, last.arg) /\ last.kind = "null"
    /\ LastUser \in DOMAIN last.preGrants
    /\ last.at = last.preGrants[LastUser] + 4999
    /\ last.arg.groupId # Null
    /\ last.arg.groupId \notin Range(db[LastUser].groups)

-----------------------------------------------------------------------------
\* C19: for every level >= 1, getProgress(level, xpThreshold(level)) has
\* percentage 0 and getProgress(level, xpThreshold(level + 1) - 1) has
\* percentage 99, and xpThreshold is strictly increasing in level.
C19_Claim ==
    last.op = "getProgress"
        => /\ last.arg.xp = GetXpNeeded(last.arg.level) => last.out.percentage = 0
           /\ last.arg.xp = GetXpNeeded(last.arg.level + 1) - 1
                 => last.out.percentage = 99
           /\ GetXpNeeded(last.arg.level) < GetXpNeeded(last.arg.level + 1)

\* C19, amended: for every level >= 1, getProgress(level, xpThreshold(level - 1))
\* has percentage 0 and getProgress(level, xpThreshold(level) - 1) has
\* percentage 99, and xpThreshold is strictly increasing in level.
C19_Amended ==
    last.op = "getProgress"
        => /\ last.arg.xp = GetXpNeeded(last.arg.level - 1) => last.out.percentage = 0
           /\ last.arg.xp = GetXpNeeded(last.arg.level) - 1 => last.out.percentage = 99
           /\ GetXpNeeded(last.arg.level - 1) < GetXpNeeded(last.arg.level)

\* getProgress(2, 399): one xp short of level 3
C19_Witness ==
    /\ last.op = "getProgress" /\ last.arg.level = 2 /\ last.arg.xp = 399
    /\ last.out.percentage = 99 /\ last.out.currentXp = 299 /\ last.out.neededXp = 300

-----------------------------------------------------------------------------
\* the place of the entry i when the entries are ordered by xp descending and
\* entries of equal xp keep the store's iteration order
PlaceByXp(entries, i) ==
    1 + Cardinality({j \in 1..Len(entries) : entries[j][2].xp > entries[i][2].xp})
      + Cardinality({j \in 1..(i - 1) : entries[j][2].xp = entries[i][2].xp})

\* C20: getUserRank(u) is 0 when u has no record and otherwise the 1-based
\* place of u when the records are ordered by xp descending with ties in store
\* iteration order; the i-th entry of getTopUsers(n) has rank i + 1 for every
\* i < min(n, number of records); distinct users have distinct ranks.
C20_Ranks ==
    LET entries == last.arg.entries
        ids == {entries[i][1] : i \in 1..Len(entries)}
    IN /\ last.op = "getUserRank" =>
            /\ Clean(last.arg.userId) \notin ids => last.out = 0
            /\ \A i \in 1..Len(entries) :
                  entries[i][1] = Clean(last.arg.userId) => last.out = PlaceByXp(entries, i)
            /\ \A u \in ids : \A v \in ids \ {u} :
                  GetUserRank(entries, u) # GetUserRank(entries, v)
       /\ last.op = "getTopUsers" =>
            \A i \in 1..Min(last.arg.limit, Len(entries)) :
                /\ i \in DOMAIN last.out
                /\ GetUserRank(entries, last.out[i].userId) = i
       /\ last.op = "leaderboard" /\ Has(last.out, "requesterRank") =>
            IF last.out.requesterRank > 0
            THEN GetUserRank(entries, last.arg.sender) = last.out.requesterRank
            ELSE last.out.actualRank > Len(last.out.topUsers)

\* the rank of the last of three users of equal xp, in iteration order u2, u3, u1
C20_Witness ==
    /\ last.op = "getUserRank" /\ last.arg.userId = "u1@s.whatsapp.net"
    /\ Len(last.arg.entries) = 3
    /\ last.arg.entries[1][1] = "u2" /\ last.arg.entries[3][1] = "u1"
    /\ \A i \in 1..3 : last.arg.entries[i][2].xp = 150
    /\ last.out = 3

\* the two best of three users, the later of two equal ones second
C20_TopReached ==
    /\ last.op = "getTopUsers" /\ last.arg.limit = 2 /\ Len(last.arg.entries) = 3
    /\ Len(last.out) = 2
    /\ last.out[1].userId = last.arg.entries[3][1] /\ last.out[2].userId = last.arg.entries[1][1]
    /\ last.out[1].xp = 400 /\ last.out[2].xp = 150 /\ last.arg.entries[2][2].xp = 150

-----------------------------------------------------------------------------
\* the least n with n * d >= h: Math.ceil(h / d)
TurnsToWin(h, d) == CHOOSE n \in 0..h : n * d >= h /\ (n = 0 \/ (n - 1) * d < h)

\* the combat of the last call: the profile that fought and the monster met
Fought ==
    /\ last.op \in {"_monsterEncounter", "hunt"}
    /\ last.out.monster # Null
Fighter == IF last.op = "hunt" THEN Before ELSE last.arg.profile
Opponent == monsters[last.out.monster]

\* C21: with userDamage = max(1, attack - floor(monster.defense / 2)) and
\* monsterDamage = max(1, monster.attack - floor(defense / 2)), the user wins
\* the combat exactly when ceil(monster.health / userDamage) <=
\* ceil(health / monsterDamage); equal turn counts give the user the victory.
C21_CombatFormula ==
    Fought =>
        LET userDamage == Max(1, Fighter.stats.attack - (Opponent.defense \div 2))
            monsterDamage == Max(1, Opponent.attack - (Fighter.stats.defense \div 2))
            turnsForUserToWin == TurnsToWin(Opponent.health, userDamage)
            turnsForMonsterToWin == TurnsToWin(Fighter.stats.health, monsterDamage)
        IN /\ last.out.won <=> turnsForUserToWin <= turnsForMonsterToWin
           /\ turnsForUserToWin = turnsForMonsterToWin => last.out.won

\* a slime (health 20, attack 5, defense 2) against attack 10, defense 5 and
\* health 9: three turns each, and the user wins
C21_Witness ==
    /\ last.op = "_monsterEncounter" /\ last.out.monster = "slime"
    /\ last.arg.profile.stats.attack = 10 /\ last.arg.profile.stats.defense = 5
    /\ last.arg.profile.stats.health = 9
    /\ last.out.won

-----------------------------------------------------------------------------
\* the hunts that reached the encounter roll and resolved an encounter, a
\* treasure find or a dead roll
Rolled ==
    /\ last.op = "hunt"
    /\ last.kind \in {"victory", "defeat", "treasure", "nothing"}

\* C22: every hunt that reaches the encounter roll r sets cooldowns.hunt from
\* that roll: now + 120000 ms when r < 0.90 and a monster encounter or a
\* treasure find was resolved, now + 30000 ms when r >= 0.90, and never any
\* other value.
C22_Claim ==
    Rolled =>
        After.cooldowns.hunt = IF last.out.roll < 90 THEN last.at + HUNT
                               ELSE last.at + NOTHING_COOLDOWN

\* the object a hunt hands to the store carries the cooldown of its roll
C22_HandedObject ==
    Rolled /\ last.kind # "defeat" =>
        Handed.cooldowns.hunt = IF last.out.roll < 90 THEN last.at + HUNT
                                ELSE last.at + NOTHING_COOLDOWN

-----------------------------------------------------------------------------
\* the bonus a train may give: none, or one stat
TrainBonuses == {"none", "attack", "defense", "speed", "maxHealth"}

Bonus(bonus, stat, amount) == IF bonus = stat THEN amount ELSE 0

Trained == last.op = "train" /\ last.kind = "success"

\* C23: a successful train adds an XP amount in [15,24] through the level-up
\* routine, sets cooldowns.train = now + 30 minutes, and changes stats only by
\* the level-up growth plus at most one bonus (+1 to one of attack, defense,
\* speed, or +5 to maxHealth together with +5 to health); gold, inventory,
\* equipment, location and the hunt, daily and quest cooldowns are unchanged.
C23_Train ==
    Trained =>
      LET b == Before
          a == After
          k == a.level - b.level
      IN /\ last.out.xp \in 15..24
         /\ k >= 0
         /\ b.xp + last.out.xp = a.xp + ThresholdsCrossed(b.level, a.level - 1)
         /\ 0 <= a.xp /\ a.xp < a.xpNeeded
         /\ a.cooldowns.train = last.at + TRAIN
         /\ \E bonus \in TrainBonuses :
              /\ a.stats.attack = b.stats.attack + 2 * k + Bonus(bonus, "attack", 1)
              /\ a.stats.defense = b.stats.defense + k + Bonus(bonus, "defense", 1)
              /\ a.stats.speed = b.stats.speed + k + Bonus(bonus, "speed", 1)
              /\ a.stats.maxHealth
                   = b.stats.maxHealth + 10 * k + Bonus(bonus, "maxHealth", 5)
              /\ a.stats.health = IF k >= 1 THEN a.stats.maxHealth
                                  ELSE b.stats.health + Bonus(bonus, "maxHealth", 5)
         /\ a.inventory = b.inventory
         /\ a.equipment = b.equipment
         /\ a.location = b.location
         /\ \A c \in {"hunt", "daily", "quest"} : a.cooldowns[c] = b.cooldowns[c]

\* a train at xp 90 that reaches level 2 and gives the attack bonus
C23_Witness ==
    /\ Trained
    /\ Before.level = 1 /\ Before.xp = 90 /\ After.level = 2
    /\ After.stats.attack = Before.stats.attack + 3
    /\ After.cooldowns.train = last.at + TRAIN

\* a train that gives the health bonus and no level
C23_HealthBonus ==
    /\ Trained /\ After.level = Before.level
    /\ After.stats.maxHealth = Before.stats.maxHealth + 5
    /\ After.stats.health = Before.stats.health + 5

-----------------------------------------------------------------------------
\* the last two calls were the same read of the same user with the same
\* arguments
ReadTwice ==
    /\ last.op \in {"getUserData", "getProfile"}
    /\ last.prev.op = last.op
    /\ last.prev.jid = last.jid
    /\ last.prev.arg = last.arg

\* C24: the leveling getUserData, or the adventure getUserData, called twice in
\* a row for the same user with the same arguments returns equal records, and
\* the second call leaves the store unchanged.
C24_ReadTwice ==
    ReadTwice => /\ last.out = last.prev.out
                 /\ db = last.pre

\* getUserData("u1@s.whatsapp.net", "Ann") twice on a store that had no row,
\* the second call later than the first
C24_Witness ==
    /\ ReadTwice /\ last.op = "getUserData" /\ last.arg = "Ann"
    /\ last.at > last.prev.at
    /\ last.out.pushName = "Ann" /\ last.out.joinedAt = last.prev.at
    /\ db = last.pre

\* getProfile twice, the first of which created the profile
C24_ProfileTwice ==
    /\ ReadTwice /\ last.op = "getProfile"
    /\ last.at > last.prev.at /\ last.out.joinedAt = last.prev.at
    /\ ~last.created

-----------------------------------------------------------------------------
\* the adventure profiles a store holds: the adventure field of a row, or the
\* row itself when a profile was stored as the row
ProfilesOf(d) ==
    {IF Has(d[u], "adventure") THEN d[u].adventure ELSE d[u] :
        u \in {v \in DOMAIN d : Has(d[v], "adventure") \/ Has(d[v], "stats")}}

\* the profiles of a state: those stored, and the one the user's next call reads
ProfilesNow == ProfilesOf(db) \cup (IF last.jid = Null THEN {} ELSE {After})

HealthInBounds(a) ==
    /\ Max(1, (a.stats.maxHealth * 25) \div 100) <= a.stats.health
    /\ a.stats.health <= a.stats.maxHealth

\* C25: in every reachable state of an adventure profile,
\* max(1, floor(maxHealth * 0.25)) <= health <= maxHealth: no train bonus,
\* consumable or level-up pushes health above maxHealth, and a combat defeat
\* never raises the user's health.
C25_Health ==
    /\ \A a \in ProfilesNow : HealthInBounds(a)
    /\ last.op = "hunt" /\ last.kind = "defeat" =>
          /\ HealthInBounds(HandleCombatDefeat(Before))
          /\ HandleCombatDefeat(Before).stats.health <= Before.stats.health
          /\ After.stats.health <= Before.stats.health

\* a health potion drunk: one potion less, health at maxHealth
C25_Witness ==
    /\ last.op = "equipItem" /\ last.arg = "potion_health" /\ last.kind = "success"
    /\ Qty(Handed, "potion_health") = Qty(Before, "potion_health") - 1
    /\ Handed.stats.health = Handed.stats.maxHealth

\* a defeat of a user of full health
C25_Defeated ==
    /\ last.op = "hunt" /\ last.kind = "defeat"
    /\ HandleCombatDefeat(Before).stats.health < Before.stats.health

-----------------------------------------------------------------------------
InventoryInOrder(a) ==
    LET its == a.inventory.items IN
    /\ a.inventory.gold >= 0
    /\ \A i \in 1..Len(its) : its[i].quantity >= 1
    /\ \A i, j \in 1..Len(its) : i # j => its[i].id # its[j].id
    /\ \A s \in EquipSlots :
          \/ a.equipment[s] = Null
          \/ Has(items, a.equipment[s]) /\ items[a.equipment[s]].type = s

\* C26: in every reachable state of an adventure profile gold >= 0, every
\* inventory entry has quantity >= 1, no item id appears in two inventory
\* entries, and each equipment slot is null or holds the id of a catalog item
\* whose type equals the slot name.
C26_Inventory == \A a \in ProfilesNow : InventoryInOrder(a)

\* the only sword_1 held is put on in place of sword_2: its entry is gone,
\* and sword_2 has an entry of one
C26_Witness ==
    /\ Equipped /\ last.arg = "sword_1"
    /\ Qty(Before, "sword_1") = 1 /\ Before.equipment.weapon = "sword_2"
    /\ Handed.equipment.weapon = "sword_1"
    /\ Qty(Handed, "sword_1") = 0 /\ Qty(Handed, "sword_2") = 1
    /\ Len(Handed.inventory.items) = Len(Before.inventory.items)

-----------------------------------------------------------------------------
\* an invocation that passed its cooldown gate and granted its rewards
Rewarded(c) ==
    /\ calls[c].pc \in {"saving", "returned"}
    /\ calls[c].kind \in {"success", "victory", "treasure"}

\* two invocations of one action for one user, the second of which started
\* before the first had returned
Overlapping(c1, c2) ==
    /\ c1 # c2
    /\ calls[c1].overlapped /\ calls[c2].overlapped
    /\ calls[c1].op = calls[c2].op /\ calls[c1].jid = calls[c2].jid

\* C27: of two invocations of the same cooldown-gated action for the same user
\* that overlap in time, at most one passes the cooldown gate and grants
\* rewards.
C27_Claim ==
    \A c1, c2 \in CallIds : Overlapping(c1, c2) => ~(Rewarded(c1) /\ Rewarded(c2))

\* of two invocations that do not overlap and run within the cooldown of the
\* first, at most one grants rewards
C27_OneAtATime ==
    \A c1, c2 \in CallIds :
      (/\ c1 # c2
       /\ ~calls[c1].overlapped /\ ~calls[c2].overlapped
       /\ calls[c1].op = calls[c2].op /\ calls[c1].jid = calls[c2].jid)
      => ~(Rewarded(c1) /\ Rewarded(c2))

\* the overlap in which the second invocation is turned away by its gate
C27_SecondTurnedAway ==
    \E c1, c2 \in CallIds :
      /\ Overlapping(c1, c2)
      /\ Rewarded(c1)
      /\ calls[c2].pc = "returned" /\ calls[c2].kind = "cooldown"

\* two overlapping hunts both stand between their cooldown check (896) and
\* their cooldown update (932, 941)
C27_BothHuntsPastGate ==
    \E c1, c2 \in CallIds :
      /\ Overlapping(c1, c2)
      /\ calls[c1].op = "hunt"
      /\ calls[c1].pc = "encounter" /\ calls[c2].pc = "encounter"

-----------------------------------------------------------------------------
\* the profile a with nothing worn and nothing held
Unequipped(a) ==
    [a EXCEPT !.equipment = [s \in DOMAIN a.equipment |-> Null],
              !.inventory = [gold |-> 0, items |-> <<>>]]

\* a hunt that fought a monster: the combat is decided as for the same profile
\* with nothing worn and nothing held
CombatIgnoresEquipment ==
    (Fought /\ last.op = "hunt")
        => last.out.won = UserWins(Unequipped(Before), Opponent)

\* C28: equipItem on a weapon, armor or accessory leaves the user's stats
\* {health, maxHealth, attack, defense, speed} as they were, and the win/lose
\* outcome of a hunt combat is that of the same profile without its equipment
\* and inventory.
C28_Claim ==
    /\ Equipped => After.stats = Before.stats
    /\ CombatIgnoresEquipment

\* the object equipItem hands to the store has the stats it read
C28_HandedObject == Equipped => Handed.stats = Before.stats

\* C28, the combat half alone
C28_Combat == CombatIgnoresEquipment

\* a fight of a user who wears a weapon
C28_ArmedFight ==
    /\ Fought /\ last.op = "hunt"
    /\ Before.equipment.weapon # Null

-----------------------------------------------------------------------------
\* a leveling record whose level is the one addXP computes from its xp
LevelMatchesXp(level, xp) == level = LevelOf(xp)

\* C29: for every leveling record with level = min(248, floor(1 + sqrt(xp/100)))
\* and level < 248, getProgress(level, xp) has 0 <= currentXp < neededXp,
\* 0 <= percentage <= 99 and neededXp = 100 * (2 * level - 1); isMaxLevel is
\* true exactly when level >= 248.
C29_Progress ==
    last.op = "getProgress"
        => LET level == last.arg.level
               p == last.out
           IN /\ (LevelMatchesXp(level, last.arg.xp) /\ level < maxLevel)
                    => /\ 0 <= p.currentXp /\ p.currentXp < p.neededXp
                       /\ 0 <= p.percentage /\ p.percentage <= 99
                       /\ p.neededXp = 100 * (2 * level - 1)
              /\ p.isMaxLevel <=> level >= maxLevel

\* getProgress of a level-247 record one xp short of level 248
C29_Witness ==
    /\ last.op = "getProgress"
    /\ last.arg.level = maxLevel - 1
    /\ last.arg.xp = GetXpNeeded(maxLevel - 1) - 1
    /\ LevelMatchesXp(last.arg.level, last.arg.xp)
    /\ last.out.percentage = 99 /\ ~last.out.isMaxLevel

\* getProgress of a record at the level cap
C29_AtCap ==
    /\ last.op = "getProgress"
    /\ last.arg.level = maxLevel /\ LevelMatchesXp(last.arg.level, last.arg.xp)
    /\ last.out.isMaxLevel

-----------------------------------------------------------------------------
\* C30: the level-up routine ends for every amount >= 0: the threshold
\* xpNeeded is at least 100 in the profile it starts from, at every level it
\* passes and in the profile it leaves, so every iteration of its loop takes at
\* least 100 from xp, and a grant of a to a profile holding xp raises the level
\* by at most floor((xp + a) / 100).
C30_LevelUpEnds ==
    last.op = "_addXP" =>
      LET b == last.arg.profile
          a == last.out
          k == a.level - b.level
      IN (b.xp >= 0 /\ last.arg.amount >= 0)
           => /\ b.xpNeeded >= 100 /\ a.xpNeeded >= 100
              /\ \A lv \in b.level..a.level : Floor100x12(lv - 1) >= 100
              /\ 0 <= a.xp /\ a.xp < a.xpNeeded
              /\ a.xp <= b.xp + last.arg.amount - 100 * k
              /\ 0 <= k /\ k <= (b.xp + last.arg.amount) \div 100

\* level 1, xp 0, grant 1000: six levels up, four short of the bound of ten
C30_Witness ==
    /\ last.op = "_addXP"
    /\ last.arg.profile.level = 1 /\ last.arg.profile.xp = 0 /\ last.arg.amount = 1000
    /\ last.out.level = 7

\* a grant that raises the level by exactly floor((xp + a) / 100)
C30_BoundMet ==
    /\ last.op = "_addXP"
    /\ last.out.level > last.arg.profile.level
    /\ last.out.level - last.arg.profile.level
         = (last.arg.profile.xp + last.arg.amount) \div 100

\* every profile the store holds, and the one the last call's user reads, has
\* a threshold of at least 100
C30_StoredThreshold == \A a \in ProfilesNow : a.xpNeeded >= 100

=============================================================================
